---- MODULE Spec2Model ----
(***************************************************************************)
(* Smart Pack core of the Need-A-Cab staff taxi booking backend            *)
(* (src/routes/budget.js): the great-circle distance, the nearest-         *)
(* neighbour route optimiser, the zone clusterer and the shift-groups      *)
(* report that buckets bookings by date, time and zone cluster.            *)
(*                                                                         *)
(* Encoding of JavaScript values                                           *)
(*   - a string is the sequence of its UTF-16 code units (all ASCII here); *)
(*   - a coordinate is an integer count of 1e-4 degrees;                   *)
(*   - the values undefined, NaN and Infinity are three integers outside   *)
(*     the range of every coordinate and distance of the model;            *)
(*   - floating point is rendered in fixed point, with rounding that is    *)
(*     symmetric in the sign as IEEE-754 rounding is.                      *)
(***************************************************************************)
EXTENDS Integers, Sequences, FiniteSets, TLC

VARIABLES
    pc,          \* optimiseRoute: where the running call stands
    stops,       \* optimiseRoute: the argument `stops`
    direction,   \* optimiseRoute: the argument `direction`
    remaining,   \* optimiseRoute: the local list `remaining`
    ordered,     \* optimiseRoute: the local list `ordered`
    current,     \* optimiseRoute: the local `current` (inbound) or `currentPos` (outbound)
    route,       \* optimiseRoute: the returned list
    returned,    \* optimiseRoute: which array the returned list is: "stops" or "ordered"
    zoneClusters,\* the module constant ZONE_CLUSTERS as the process loaded it
    lookups,     \* getZoneClusterName: the latest calls, [arg, label] each
    bookings,    \* the Booking collection, in insertion order
    reportPc,    \* GET /api/reports/shift-groups: "idle", or "done" or "failed" with the locals below
    reqType,     \* shift-groups: the local `type`
    groups,      \* shift-groups: the local `groups`, the result of Booking.aggregate
    bucketMap,   \* shift-groups: the local `bucketMap`, in insertion order
    formatted,   \* shift-groups: the local `formatted`, sent as the response
    runs,        \* shift-groups: the locals of each of the requests served side by side
    zonePickups, \* the content of the zone-pickups file, as [key, entries] in key order
    counter,     \* the field seq of the Counter document "booking_short_ref"
    posts,       \* POST /api/bookings: the locals of each request being served
    response     \* the latest answer of a handler that changes one booking

routeVars == <<pc, stops, direction, remaining, ordered, current, route, returned>>

clusterVars == <<zoneClusters, lookups>>

reportVars == <<bookings, reportPc, reqType, groups, bucketMap, formatted>>

\* what a step of optimiseRoute leaves alone
notRouteVars == <<zoneClusters, lookups, bookings, reportPc, reqType, groups,
                  bucketMap, formatted, runs, zonePickups, counter, posts,
                  response>>

\* what a call of getZoneClusterName leaves alone
notClusterVars == <<pc, stops, direction, remaining, ordered, current, route, returned,
                    bookings, reportPc, reqType, groups, bucketMap, formatted,
                    runs, zonePickups, counter, posts, response>>

\* what a request to the server leaves alone: the other requests' locals too
notReportVars == <<pc, stops, direction, remaining, ordered, current, route, returned,
                   zoneClusters, lookups, runs, zonePickups, counter, posts,
                   response>>

\* what a step of one of the requests served side by side leaves alone
notRunVars == <<pc, stops, direction, remaining, ordered, current, route, returned,
                zoneClusters, lookups, reportPc, reqType, groups, bucketMap,
                formatted, zonePickups, counter, posts, response>>

vars == <<pc, stops, direction, remaining, ordered, current, route, returned,
          zoneClusters, lookups,
          bookings, reportPc, reqType, groups, bucketMap, formatted, runs,
          zonePickups, counter, posts, response>>

-----------------------------------------------------------------------------
(* JavaScript number values that are not finite numbers *)

\* the value of a missing object field
undefined == -900000000
\* the result of arithmetic on undefined
NaN == -800000000
\* the global Infinity
Infinity == 2000000000

\* typeof x === "number" (no stored coordinate is NaN: normaliseAddressShape
\* rejects it and the schema casts to Number)
IsNumber(x) == x # undefined

\* the comparisons of two number values, each operand evaluated once: every
\* comparison with NaN is false
NumberLess[a \in Int, b \in Int] == a # NaN /\ b # NaN /\ a < b
NumberLessOrEqual[a \in Int, b \in Int] == a # NaN /\ b # NaN /\ a <= b

\* <= and >= written for < and >
Lt_orEqual(a, b) == NumberLessOrEqual[a, b]
Gt_orEqual(a, b) == NumberLessOrEqual[b, a]

\* a < b and a > b on numbers
Lt(a, b) == NumberLess[a, b]
Gt(a, b) == NumberLess[b, a]

-----------------------------------------------------------------------------
(* Strings: sequences of UTF-16 code units *)

\* null, or a field the document does not have
null == <<-1>>

\* "(unknown)"
sUnknown == <<40, 117, 110, 107, 110, 111, 119, 110, 41>>
\* "Mutley / Greenbank / Lipson / St Judes / Mount Gould"
sClusterLabel ==
    <<77, 117, 116, 108, 101, 121, 32, 47, 32, 71, 114, 101, 101, 110, 98,
      97, 110, 107, 32, 47, 32, 76, 105, 112, 115, 111, 110, 32, 47, 32, 83,
      116, 32, 74, 117, 100, 101, 115, 32, 47, 32, 77, 111, 117, 110, 116,
      32, 71, 111, 117, 108, 100>>
\* "Mutley"
sMutley == <<77, 117, 116, 108, 101, 121>>
\* "Greenbank"
sGreenbank == <<71, 114, 101, 101, 110, 98, 97, 110, 107>>
\* "St Judes, Lipson"
sStJudesLipson ==
    <<83, 116, 32, 74, 117, 100, 101, 115, 44, 32, 76, 105, 112, 115, 111,
      110>>
\* "St Judes"
sStJudes == <<83, 116, 32, 74, 117, 100, 101, 115>>
\* "St Jude's"
sStJudeS == <<83, 116, 32, 74, 117, 100, 101, 39, 115>>
\* "Lipson"
sLipson == <<76, 105, 112, 115, 111, 110>>
\* "Mount Gould"
sMountGould == <<77, 111, 117, 110, 116, 32, 71, 111, 117, 108, 100>>
\* "North Cross"
sNorthCross == <<78, 111, 114, 116, 104, 32, 67, 114, 111, 115, 115>>
\* "North Hill"
sNorthHill == <<78, 111, 114, 116, 104, 32, 72, 105, 108, 108>>
\* "MUTLEY"
sMUTLEY == <<77, 85, 84, 76, 69, 89>>
\* "mutley"
sMutleyLower == <<109, 117, 116, 108, 101, 121>>
\* " Mutley "
sMutleyPadded == <<32, 77, 117, 116, 108, 101, 121, 32>>
\* "GREENBANK"
sGREENBANK == <<71, 82, 69, 69, 78, 66, 65, 78, 75>>
\* "Crownhill"
sCrownhill == <<67, 114, 111, 119, 110, 104, 105, 108, 108>>
\* "CROWNHILL"
sCROWNHILL == <<67, 82, 79, 87, 78, 72, 73, 76, 76>>
\* "Crownhill" and a tab
sCrownhillTab == <<67, 114, 111, 119, 110, 104, 105, 108, 108, 9>>
\* "Plympton"
sPlympton == <<80, 108, 121, 109, 112, 116, 111, 110>>
\* two spaces
sBlank == <<32, 32>>
\* "Crownhill / Plympton"
sNorthLabel ==
    <<67, 114, 111, 119, 110, 104, 105, 108, 108, 32, 47, 32, 80, 108, 121,
      109, 112, 116, 111, 110>>

\* the code units String.prototype.trim strips (WhiteSpace and
\* LineTerminator, the ones below U+0100)
IsTrimSpace(c) == c \in {9, 10, 11, 12, 13, 32, 160}

RECURSIVE trimStart(_)
trimStart(s) ==
    IF Len(s) > 0 /\ IsTrimSpace(s[1]) THEN trimStart(Tail(s)) ELSE s

RECURSIVE trimEnd(_)
trimEnd(s) ==
    IF Len(s) > 0 /\ IsTrimSpace(s[Len(s)])
    THEN trimEnd(SubSeq(s, 1, Len(s) - 1))
    ELSE s

\* String.prototype.trim
trim(s) == trimEnd(trimStart(s))

\* toLowerCase left out
toLowerCase_asIs(s) == s

\* String.prototype.toLowerCase, on ASCII
toLowerCase(s) ==
    [i \in 1..Len(s) |-> IF s[i] >= 65 /\ s[i] <= 90 THEN s[i] + 32 ELSE s[i]]

\* String(v || ""): null and the empty string give ""
StringOrEmpty(v) == IF v = null \/ v = <<>> THEN <<>> ELSE v

\* "__"
sKeySep == <<95, 95>>
\* "-"
sDash == <<45>>
\* "2025-12-24"
sDate1 == <<50, 48, 50, 53, 45, 49, 50, 45, 50, 52>>
\* "2026-01-01"
sDate2 == <<50, 48, 50, 54, 45, 48, 49, 45, 48, 49>>
\* "08:00"
sTime1 == <<48, 56, 58, 48, 48>>
\* "20:00"
sTime2 == <<50, 48, 58, 48, 48>>
\* "08:00__A"
sTimeA == <<48, 56, 58, 48, 48, 95, 95, 65>>
\* "2025-12-24__08:00"
sDateTime == <<50, 48, 50, 53, 45, 49, 50, 45, 50, 52, 95, 95, 48, 56, 58, 48, 48>>
\* "A"
sA == <<65>>
\* "undefined"
sUndefined == <<117, 110, 100, 101, 102, 105, 110, 101, 100>>
\* "1 Mutley Plain"
sMutleyPlain == <<49, 32, 77, 117, 116, 108, 101, 121, 32, 80, 108, 97, 105, 110>>
\* "mutley plain"
sMutleyPlainLower == <<109, 117, 116, 108, 101, 121, 32, 112, 108, 97, 105, 110>>
\* "2 Hill Rd"
sHillRd == <<50, 32, 72, 105, 108, 108, 32, 82, 100>>
\* "Plymouth"
sPlymouth == <<80, 108, 121, 109, 111, 117, 116, 104>>
\* "Derriford Hospital"
sDerrifordHospital == <<68, 101, 114, 114, 105, 102, 111, 114, 100, 32, 72, 111, 115, 112, 105, 116, 97, 108>>
\* "PL4 6JQ"
sPL46JQ == <<80, 76, 52, 32, 54, 74, 81>>
\* "PL4 7AA"
sPL47AA == <<80, 76, 52, 32, 55, 65, 65>>
\* "PL6 8DH"
sPL68DH == <<80, 76, 54, 32, 56, 68, 72>>
\* "Co-op"
sCoop == <<67, 111, 45, 111, 112>>
\* "Bus stop"
sBusStop == <<66, 117, 115, 32, 115, 116, 111, 112>>
\* "Derriford"
sDerriford == <<68, 101, 114, 114, 105, 102, 111, 114, 100>>

\* a < b for strings by code units: JavaScript's <, the default order of
\* Array.prototype.sort and MongoDB's simple binary collation
RECURSIVE CodeUnitLess(_, _)
CodeUnitLess(a, b) ==
    IF Len(b) = 0 THEN FALSE
    ELSE IF Len(a) = 0 THEN TRUE
    ELSE IF a[1] # b[1] THEN a[1] < b[1]
    ELSE CodeUnitLess(Tail(a), Tail(b))

\* The ASCII characters in the order of the root collation that
\* String.prototype.localeCompare applies: white space, punctuation, symbols,
\* digits, letters.
CollationOrder ==
    << 9, 10, 11, 12, 13, 32, 95, 45, 44, 59, 58, 33, 63, 46, 39, 34, 40, 41,
       91, 93, 123, 125, 64, 42, 47, 92, 38, 35, 37, 96, 94, 43, 60, 61, 62,
       124, 126, 36, 48, 49, 50, 51, 52, 53, 54, 55, 56, 57, 97, 98, 99, 100,
       101, 102, 103, 104, 105, 106, 107, 108, 109, 110, 111, 112, 113, 114,
       115, 116, 117, 118, 119, 120, 121, 122 >>

\* primary weight of a code unit: its place in the collation order, letters
\* without regard to case
PrimaryWeight(c) ==
    LET f == IF c >= 65 /\ c <= 90 THEN c + 32 ELSE c
    IN  CHOOSE k \in 1..Len(CollationOrder) : CollationOrder[k] = f

\* comparison of the primary weights: -1, 0 or 1
RECURSIVE comparePrimary(_, _)
comparePrimary(a, b) ==
    IF Len(a) = 0 /\ Len(b) = 0 THEN 0
    ELSE IF Len(a) = 0 THEN -1
    ELSE IF Len(b) = 0 THEN 1
    ELSE IF PrimaryWeight(a[1]) # PrimaryWeight(b[1])
         THEN (IF PrimaryWeight(a[1]) < PrimaryWeight(b[1]) THEN -1 ELSE 1)
    ELSE comparePrimary(Tail(a), Tail(b))

\* comparison of the case of strings with equal primary weights: the small
\* letter sorts first
RECURSIVE compareCase(_, _)
compareCase(a, b) ==
    IF Len(a) = 0 THEN 0
    ELSE IF a[1] # b[1] THEN (IF a[1] > b[1] THEN -1 ELSE 1)
    ELSE compareCase(Tail(a), Tail(b))

\* a.localeCompare(b)
localeCompare(a, b) ==
    IF comparePrimary(a, b) # 0 THEN comparePrimary(a, b) ELSE compareCase(a, b)

\* the string a value becomes in a template literal or as the argument of
\* localeCompare: a field the record does not have reads undefined
toStringValue(v) == IF v = null THEN sUndefined ELSE v

IsDigit(c) == c >= 48 /\ c <= 57

\* /^\d{4}-\d{2}-\d{2}$/.test(s)
IsIsoDate(s) ==
    /\ Len(s) = 10
    /\ \A i \in {1, 2, 3, 4, 6, 7, 9, 10} : IsDigit(s[i])
    /\ s[5] = 45
    /\ s[8] = 45

-----------------------------------------------------------------------------
(* Fixed-point arithmetic *)

\* one radian, in the unit of angles (1e-7 rad)
RadScale == 10000000
\* the value 1.0 of a cosine
CosScale == 10000

Abs[x \in Int] == IF x < 0 THEN -x ELSE x
Sgn[x \in Int] == IF x < 0 THEN -1 ELSE 1

\* n / d rounded to nearest, symmetric in the sign of n (d > 0)
RoundDiv[n \in Int, d \in Int] == Sgn[n] * ((2 * Abs[n] + d) \div (2 * d))

SqrtIter[n \in Int, x \in Int] ==
    LET y == (x + n \div x) \div 2
    IN  IF y >= x THEN x ELSE SqrtIter[n, y]

\* Math.sqrt on a non-negative integer: the integer square root
Sqrt[n \in Int] == IF n <= 0 THEN 0 ELSE SqrtIter[n, n]

\* Math.sin of an angle x (1e-7 rad), |x| < 0.004 rad: x - x^3/6
Sin[x \in Int] == x - RoundDiv[RoundDiv[RoundDiv[x * x, RadScale] * x, RadScale], 6]

\* Math.cos of an angle x (1e-7 rad), |x| <= pi/2, result in CosScale:
\* 1 - x^2/2 + x^4/24 - x^6/720 + x^8/40320
Cos[x \in Int] ==
    LET x1 == RoundDiv[x, RadScale \div CosScale]
        x2 == RoundDiv[x1 * x1, CosScale]
        x4 == RoundDiv[x2 * x2, CosScale]
        x6 == RoundDiv[x4 * x2, CosScale]
        x8 == RoundDiv[x4 * x4, CosScale]
    IN  CosScale - RoundDiv[x2, 2] + RoundDiv[x4, 24] - RoundDiv[x6, 720]
            + RoundDiv[x8, 40320]

\* Math.atan2(y, x) for 0 <= y << x, both in 1e-7 units: q - q^3/3 with q = y/x
Atan2[y \in Int, x \in Int] ==
    LET q == y + RoundDiv[y * (RadScale - x), x]
    IN  q - RoundDiv[RoundDiv[RoundDiv[q * q, RadScale] * q, RadScale], 3]

-----------------------------------------------------------------------------
(* Distance *)

\* Derriford Hospital, the hub (1e-4 degrees)
DH_LAT == 504195
DH_LNG == -41090

\* Earth radius in metres
R == 6371000

\* (d * Math.PI) / 180 for d in 1e-4 degrees, result in 1e-7 rad
toRad[d \in Int] ==
    Sgn[d] * (((Abs[d] \div 1000) * 174533) \div 10
                + RoundDiv[(Abs[d] % 1000) * 174533, 10000])

\* const a = Math.sin(dLat / 2) ** 2 + Math.cos(..) * Math.cos(..) *
\* Math.sin(dLng / 2) ** 2, from the two sines (1e-7) and the product of the
\* cosines (CosScale); a is held in units of 1e-14
haversineA[sLat \in Int, sLng \in Int, cc \in Int] ==
    sLat * sLat + RoundDiv[RoundDiv[sLng * sLng, 1000] * cc, 10]

\* const c = 2 * Math.atan2(Math.sqrt(a), Math.sqrt(1 - a)), in units of 1e-7;
\* Math.sqrt(1 - a) = 1 - a/2 to the unit, for a < 1e-5
haversineC[a \in Int] ==
    2 * Atan2[Sqrt[a], RadScale - RoundDiv[a, 2 * RadScale]]

\* the cosine of the first latitude is taken twice
haversineDistance_cosLat1Twice(lat1, lng1, lat2, lng2) ==
    IF ~IsNumber(lat1) \/ ~IsNumber(lng1) \/ ~IsNumber(lat2) \/ ~IsNumber(lng2)
    THEN NaN
    ELSE
    LET dLat == toRad[lat2 - lat1]
        dLng == toRad[lng2 - lng1]
        a    == haversineA[Sin[RoundDiv[dLat, 2]], Sin[RoundDiv[dLng, 2]],
                           RoundDiv[Cos[toRad[lat1]] * Cos[toRad[lat1]], CosScale]]
        c    == haversineC[a]
    IN  RoundDiv[(R \div 1000) * c, 10]

\* Great-circle distance in millimetres; NaN when an argument is no number.
haversineDistance(lat1, lng1, lat2, lng2) ==
    IF ~IsNumber(lat1) \/ ~IsNumber(lng1) \/ ~IsNumber(lat2) \/ ~IsNumber(lng2)
    THEN NaN
    ELSE
    LET dLat == toRad[lat2 - lat1]
        dLng == toRad[lng2 - lng1]
        a    == haversineA[Sin[RoundDiv[dLat, 2]], Sin[RoundDiv[dLng, 2]],
                           RoundDiv[Cos[toRad[lat1]] * Cos[toRad[lat2]], CosScale]]
        c    == haversineC[a]
    IN  RoundDiv[(R \div 1000) * c, 10]

-----------------------------------------------------------------------------
(* Route optimiser *)

\* splice without its delete count: everything from position i on goes
RemoveAt_toTheEnd(seq, i) == SubSeq(seq, 1, i - 1)

\* splice with the delete count 2
RemoveAt_two(seq, i) == SubSeq(seq, 1, i - 1) \o SubSeq(seq, i + 2, Len(seq))

\* remaining.splice(i, 1): the list without its element at position i
RemoveAt(seq, i) == SubSeq(seq, 1, i - 1) \o SubSeq(seq, i + 1, Len(seq))

\* inbound: remaining.forEach that finds the stop furthest from Derriford,
\* from position i on, with the accumulators startIdx and maxDist
RECURSIVE furthestScan(_, _, _, _)
furthestScan(rem, i, startIdx, maxDist) ==
    IF i > Len(rem) THEN startIdx
    ELSE IF ~IsNumber(rem[i].lat) \/ ~IsNumber(rem[i].lng)
         THEN furthestScan(rem, i + 1, startIdx, maxDist)
    ELSE LET d == haversineDistance(rem[i].lat, rem[i].lng,
                                    DH_LAT, DH_LNG)
         IN  IF Gt(d, maxDist)
             THEN furthestScan(rem, i + 1, i, d)
             ELSE furthestScan(rem, i + 1, startIdx, maxDist)

\* let startIdx = 0; let maxDist = -1; remaining.forEach(...)
inboundStartIdx(rem) == furthestScan(rem, 1, 1, -1)

\* remaining.forEach that finds the stop nearest to (lat, lng), from
\* position i on, with the accumulators bestIdx and bestDist
RECURSIVE nearestScan(_, _, _, _, _, _)
nearestScan(rem, lat, lng, i, bestIdx, bestDist) ==
    IF i > Len(rem) THEN bestIdx
    ELSE IF ~IsNumber(rem[i].lat) \/ ~IsNumber(rem[i].lng)
         THEN nearestScan(rem, lat, lng, i + 1, bestIdx, bestDist)
    ELSE LET d == haversineDistance(lat, lng, rem[i].lat, rem[i].lng)
         IN  IF Lt(d, bestDist)
             THEN nearestScan(rem, lat, lng, i + 1, i, d)
             ELSE nearestScan(rem, lat, lng, i + 1, bestIdx, bestDist)

\* the first remaining stop starts as the best one, with its distance
inboundBestIdx_firstAsBest(rem, cur) ==
    nearestScan(rem, cur.lat, cur.lng, 2, 1,
                haversineDistance(cur.lat, cur.lng, rem[1].lat, rem[1].lng))

\* inbound: let bestIdx = 0; let bestDist = Infinity; remaining.forEach(...)
inboundBestIdx(rem, cur) ==
    nearestScan(rem, cur.lat, cur.lng, 1, 1, Infinity)

\* the distance is always taken from Derriford
outboundBestIdx_fromHub(rem, pos) ==
    nearestScan(rem, DH_LAT, DH_LNG, 1, 1, Infinity)

\* outbound: let bestIdx = 0; let bestDist = Infinity; remaining.forEach(...)
outboundBestIdx(rem, pos) ==
    nearestScan(rem, pos.lat, pos.lng, 1, 1, Infinity)

\* inbound: while (remaining.length) { ... current = remaining.splice(bestIdx, 1)[0];
\* ordered.push(current) }
RECURSIVE inboundWalk(_, _, _)
inboundWalk(rem, ord, cur) ==
    IF Len(rem) = 0 THEN ord
    ELSE LET bestIdx == inboundBestIdx(rem, cur)
         IN  inboundWalk(RemoveAt(rem, bestIdx),
                         Append(ord, rem[bestIdx]),
                         rem[bestIdx])

\* outbound: while (remaining.length) { ... const next = remaining.splice(bestIdx, 1)[0];
\* ordered.push(next); currentPos = { lat: next.lat, lng: next.lng } }
RECURSIVE outboundWalk(_, _, _)
outboundWalk(rem, ord, pos) ==
    IF Len(rem) = 0 THEN ord
    ELSE LET bestIdx == outboundBestIdx(rem, pos)
             next    == rem[bestIdx]
         IN  outboundWalk(RemoveAt(rem, bestIdx),
                          Append(ord, next),
                          [lat |-> next.lat, lng |-> next.lng])

\* inbound branch: seed with the furthest stop, then walk
inboundRoute(rem) ==
    LET startIdx == inboundStartIdx(rem)
        cur  == rem[startIdx]
    IN  inboundWalk(RemoveAt(rem, startIdx), <<cur>>, cur)

\* outbound branch: start at Derriford, then walk
outboundRoute(rem) ==
    outboundWalk(rem, <<>>, [lat |-> DH_LAT, lng |-> DH_LNG])

optimiseRoute(stopList, dir) ==
    IF Len(stopList) <= 1 THEN stopList
    ELSE IF dir = "inbound" THEN inboundRoute(stopList)
    ELSE outboundRoute(stopList)

-----------------------------------------------------------------------------
(* Zone clusterer *)

\* the cluster list of the source
ZONE_CLUSTERS ==
    << [label |-> sClusterLabel,
        zones |-> <<sMutley, sGreenbank, sStJudesLipson, sStJudes, sStJudeS,
                    sLipson, sMountGould, sNorthCross, sNorthHill>>] >>

\* for (const z of cluster.zones) if (lower === String(z).toLowerCase())
RECURSIVE zonesMatch(_, _, _)
zonesMatch(zones, lower, j) ==
    IF j > Len(zones) THEN FALSE
    ELSE IF lower = toLowerCase(zones[j]) THEN TRUE
    ELSE zonesMatch(zones, lower, j + 1)

\* the loop without its early return: the last matching cluster wins
RECURSIVE clusterScan_lastMatch(_, _, _, _)
clusterScan_lastMatch(clusters, lower, name, i) ==
    IF i > Len(clusters) THEN name
    ELSE IF zonesMatch(clusters[Len(clusters) + 1 - i].zones, lower, 1)
         THEN clusters[Len(clusters) + 1 - i].label
    ELSE clusterScan_lastMatch(clusters, lower, name, i + 1)

\* for (const cluster of ZONE_CLUSTERS) { ... return cluster.label } return name
RECURSIVE clusterScan(_, _, _, _)
clusterScan(clusters, lower, name, i) ==
    IF i > Len(clusters) THEN name
    ELSE IF zonesMatch(clusters[i].zones, lower, 1) THEN clusters[i].label
    ELSE clusterScan(clusters, lower, name, i + 1)

\* the test for an empty name left out
getZoneClusterName_noEmptyTest(zoneName) ==
    LET name == trim(StringOrEmpty(zoneName))
    IN  clusterScan(zoneClusters, toLowerCase(name), name, 1)

\* the fallback returns the lower-cased name
getZoneClusterName_lowerFallback(zoneName) ==
    LET name == trim(StringOrEmpty(zoneName))
    IN  IF name = <<>> THEN sUnknown
        ELSE clusterScan(zoneClusters, toLowerCase(name), toLowerCase(name), 1)

getZoneClusterName(zoneName) ==
    LET name == trim(StringOrEmpty(zoneName))
    IN  IF name = <<>> THEN sUnknown
        ELSE clusterScan(zoneClusters, toLowerCase(name), name, 1)

-----------------------------------------------------------------------------
(* Shift-groups report *)

\* const [y, m, d] = iso.split("-"); return `${d}-${m}-${y.slice(2)}`
toDDMMYY(iso) ==
    IF iso = null \/ iso = <<>> THEN <<>>
    ELSE IF ~IsIsoDate(iso) THEN iso
    ELSE SubSeq(iso, 9, 10) \o sDash \o SubSeq(iso, 6, 7) \o sDash
            \o SubSeq(SubSeq(iso, 1, 4), 3, 4)

\* { $match: match }: the bookings of the shift type asked for
matchBookings(docs, type) ==
    IF type \in {"start", "finish"}
    THEN SelectSeq(docs, LAMBDA b : b.shiftType = type)
    ELSE docs

\* the address side the report reads: destination for "finish", else pickup
stopSide(b, type) == IF type = "finish" THEN b.destination ELSE b.pickup

\* the element $push adds to addresses
pushedAddress(b, type) ==
    [formatted |-> stopSide(b, type).formatted,
     postCode |-> stopSide(b, type).postCode,
     lat |-> stopSide(b, type).lat, lng |-> stopSide(b, type).lng,
     staffName |-> b.staffName]

\* the _id of the $group stage
groupId(b, type) ==
    [date |-> b.pickupDateISO, time |-> b.onOffDutyTime,
     zone |-> stopSide(b, type).zone]

\* { $group: { _id, count: { $sum: 1 }, addresses: { $push } } }: the groups in
\* the order their ids first occur, from document i on
RECURSIVE groupStage(_, _, _, _)
groupStage(docs, type, i, acc) ==
    IF i > Len(docs) THEN acc
    ELSE LET id  == groupId(docs[i], type)
             hit == {k \in 1..Len(acc) : acc[k].id = id}
         IN  IF hit = {}
             THEN groupStage(docs, type, i + 1,
                    Append(acc, [id |-> id, count |-> 1,
                                 addresses |-> <<pushedAddress(docs[i], type)>>]))
             ELSE groupStage(docs, type, i + 1,
                    [k \in 1..Len(acc) |->
                        IF k \in hit
                        THEN [acc[k] EXCEPT
                                !.count = @ + 1,
                                !.addresses = Append(@, pushedAddress(docs[i], type))]
                        ELSE acc[k]])

\* { $project: { pickupDateISO, onOffDutyTime, zoneName: { $ifNull: [...] },
\* count, addresses } }
projectStage(gs) ==
    [k \in 1..Len(gs) |->
        [pickupDateISO |-> gs[k].id.date,
         onOffDutyTime |-> gs[k].id.time,
         zoneName      |-> IF gs[k].id.zone = null THEN sUnknown ELSE gs[k].id.zone,
         count         |-> gs[k].count,
         addresses     |-> gs[k].addresses]]

\* the order of { $sort: { pickupDateISO: 1, onOffDutyTime: 1, zoneName: 1 } }
groupBefore(g, h) ==
    IF g.pickupDateISO # h.pickupDateISO
    THEN CodeUnitLess(g.pickupDateISO, h.pickupDateISO)
    ELSE IF g.onOffDutyTime # h.onOffDutyTime
    THEN CodeUnitLess(g.onOffDutyTime, h.onOffDutyTime)
    ELSE CodeUnitLess(g.zoneName, h.zoneName)

\* the comparator of formatted.sort called with (a, b) raises a TypeError:
\* the field whose localeCompare it calls is undefined in a
compareThrows(a, b) ==
    IF a.pickupDateISO # b.pickupDateISO THEN a.pickupDateISO = null
    ELSE IF a.onOffDutyTime # b.onOffDutyTime THEN a.onOffDutyTime = null
    ELSE a.zoneName = null

\* the comparator of formatted.sort: negative when a sorts before b
formattedCompare(a, b) ==
    IF a.pickupDateISO # b.pickupDateISO
    THEN localeCompare(a.pickupDateISO, toStringValue(b.pickupDateISO))
    ELSE IF a.onOffDutyTime # b.onOffDutyTime
    THEN localeCompare(a.onOffDutyTime, toStringValue(b.onOffDutyTime))
    ELSE localeCompare(a.zoneName, toStringValue(b.zoneName))

\* formatted.sort raises what its comparator raises.  Which pairs the sort
\* hands to the comparator, and in which order, is the engine's choice: the
\* sort can raise when some pair of elements makes the comparator raise, and
\* can return when no pair it has to compare raises both ways round.
sortOutcomes(seq) ==
    LET pairs == {p \in (1..Len(seq)) \X (1..Len(seq)) : p[1] # p[2]}
    IN  (IF \E p \in pairs : compareThrows(seq[p[1]], seq[p[2]])
         THEN {"TypeError"} ELSE {})
        \cup
        (IF \E p \in pairs : /\ compareThrows(seq[p[1]], seq[p[2]])
                              /\ compareThrows(seq[p[2]], seq[p[1]])
         THEN {} ELSE {"sorted"})

\* x sorts before y under the order named by kind; formatted.sort learns the
\* order of a pair from the call of its comparator that returns
Before(kind, x, y) ==
    CASE kind = "$sort"     -> groupBefore(x, y)
      [] kind = "formatted" -> IF compareThrows(x, y)
                               THEN formattedCompare(y, x) > 0
                               ELSE formattedCompare(x, y) < 0
      [] kind = "zones"     -> CodeUnitLess(x, y)

\* x put into the sorted list seq, behind the elements it does not sort before
RECURSIVE insertSorted(_, _, _)
insertSorted(kind, seq, x) ==
    IF Len(seq) = 0 THEN <<x>>
    ELSE IF Before(kind, x, seq[1]) THEN <<x>> \o seq
    ELSE <<seq[1]>> \o insertSorted(kind, Tail(seq), x)

\* the stable sorts: { $sort }, Array.prototype.sort with and without comparator
RECURSIVE sortSeq(_, _)
sortSeq(kind, seq) ==
    IF Len(seq) = 0 THEN <<>>
    ELSE insertSorted(kind, sortSeq(kind, SubSeq(seq, 1, Len(seq) - 1)),
                      seq[Len(seq)])

\* Booking.aggregate(pipeline)
aggregate(docs, type) ==
    sortSeq("$sort", projectStage(groupStage(matchBookings(docs, type), type, 1, <<>>)))

\* loadZonePickupsSafe() when there is no file, or no object in it: {}
NoZonePickups == <<>>

\* String.prototype.includes
includes(text, needle) ==
    \E i \in 0..(Len(text) - Len(needle)) :
        SubSeq(text, i + 1, i + Len(needle)) = needle

\* String(v || "").replace(/\s+/g, "").toLowerCase()
cleanPostCode(v) ==
    toLowerCase(SelectSeq(StringOrEmpty(v), LAMBDA c : ~IsTrimSpace(c)))

\* whether the entry of the configuration matches the address
entryMatches(entry, addrText, addrPostCode) ==
    IF entry.type = "string"
    THEN includes(addrText, toLowerCase(entry.value))
    ELSE IF entry.type = "object"
    THEN \/ entry.exact # null /\ addrText = toLowerCase(entry.exact)
         \/ entry.contains # null /\ includes(addrText, toLowerCase(entry.contains))
         \/ \E k \in 1..Len(entry.postcodes) :
                cleanPostCode(entry.postcodes[k]) = addrPostCode
    ELSE FALSE

\* label of the entry: the string itself, or entry.label || ""
entryLabel(entry) ==
    IF entry.type = "string" THEN entry.value
    ELSE IF entry.type = "object" THEN StringOrEmpty(entry.label)
    ELSE <<>>

\* for (const entry of entries) { ... if (match && label) { ...; break; } }:
\* the first entry from k on that matches and has a label, 0 if none
RECURSIVE firstLabelled(_, _, _, _)
firstLabelled(entries, addrText, addrPostCode, k) ==
    IF k > Len(entries) THEN 0
    ELSE IF entryMatches(entries[k], addrText, addrPostCode)
            /\ entryLabel(entries[k]) # <<>>
    THEN k
    ELSE firstLabelled(entries, addrText, addrPostCode, k + 1)

\* { ...addr } with the two label fields set
withLabel(addr, label, zoneKey) ==
    [f \in DOMAIN addr \cup {"pickupPointLabel", "pickupPointZone"} |->
        IF f = "pickupPointLabel" THEN label
        ELSE IF f = "pickupPointZone" THEN zoneKey
        ELSE addr[f]]

\* the callback of (addresses || []).map
labelAddress(addr, entries, zoneKey) ==
    LET addrText     == toLowerCase(StringOrEmpty(addr.formatted))
        addrPostCode == cleanPostCode(addr.postCode)
        k            == firstLabelled(entries, addrText, addrPostCode, 1)
    IN  IF addrText = <<>> /\ addrPostCode = <<>> THEN addr
        ELSE IF k = 0 THEN addr
        ELSE withLabel(addr, entryLabel(entries[k]), zoneKey)

\* Object.keys(config).find((k) => k.toLowerCase() === zone.toLowerCase()):
\* the place of the first such key from k on, 0 if none
RECURSIVE findZoneKey(_, _, _)
findZoneKey(config, zone, k) ==
    IF k > Len(config) THEN 0
    ELSE IF toLowerCase(config[k].key) = toLowerCase(zone) THEN k
    ELSE findZoneKey(config, zone, k + 1)

\* the label is written over the address text
applyZonePickupPointsToAddresses_labelAsFormatted(addresses, zoneName, config) ==
    LET zone == trim(StringOrEmpty(zoneName))
        k    == findZoneKey(config, zone, 1)
    IN  IF zone = <<>> \/ k = 0 THEN addresses
        ELSE IF ~config[k].isArray THEN addresses
        ELSE [n \in 1..Len(addresses) |->
                LET out == labelAddress(addresses[n], config[k].entries, config[k].key)
                IN  IF "pickupPointLabel" \in DOMAIN out
                    THEN [out EXCEPT !.formatted = out.pickupPointLabel]
                    ELSE out]

\* applyZonePickupPointsToAddresses(addresses, zoneName), with the
\* configuration that loadZonePickupsSafe() reads
applyZonePickupPointsToAddresses(addresses, zoneName, config) ==
    LET zone == trim(StringOrEmpty(zoneName))
        k    == findZoneKey(config, zone, 1)
    IN  IF zone = <<>> \/ k = 0 THEN addresses
        ELSE IF ~config[k].isArray THEN addresses
        ELSE [n \in 1..Len(addresses) |->
                labelAddress(addresses[n], config[k].entries, config[k].key)]

\* `${isoDate}__${time}__${clusterName}`
bucketKey(isoDate, time, clusterName) ==
    toStringValue(isoDate) \o sKeySep \o toStringValue(time) \o sKeySep \o clusterName

\* every group counts as one stop
bucketCount_perGroup(count, g) == count + 1

\* bucket.count += g.count || 0
bucketCount(count, g) == count + g.count

\* bucket.zones.add(originalZone) on a Set kept in insertion order
setAdd(set, x) ==
    IF \E k \in 1..Len(set) : set[k] = x THEN set ELSE Append(set, x)

\* the group's addresses take the place of the bucket's
bucketIteration_replace(map, g) ==
    LET originalZone == IF g.zoneName = null \/ g.zoneName = <<>>
                        THEN sUnknown ELSE g.zoneName
        clusterName  == getZoneClusterName(originalZone)
        key          == bucketKey(g.pickupDateISO, g.onOffDutyTime, clusterName)
        withKey      == IF \E k \in 1..Len(map) : map[k].key = key
                        THEN map
                        ELSE Append(map, [key |-> key,
                                          pickupDateISO |-> g.pickupDateISO,
                                          onOffDutyTime |-> g.onOffDutyTime,
                                          clusterName |-> clusterName,
                                          zones |-> <<>>,
                                          count |-> 0,
                                          addresses |-> <<>>])
    IN  [k \in 1..Len(withKey) |->
            IF withKey[k].key = key
            THEN [withKey[k] EXCEPT
                    !.zones = setAdd(@, originalZone),
                    !.count = g.count,
                    !.addresses = g.addresses]
            ELSE withKey[k]]

\* one turn of for (const g of withPickupPointsByZone) { ... }: the bucket of
\* g's key is set up empty if the Map does not have it, then g is added to it
bucketIteration(map, g) ==
    LET isoDate      == g.pickupDateISO
        time         == g.onOffDutyTime
        originalZone == IF g.zoneName = null \/ g.zoneName = <<>>
                        THEN sUnknown ELSE g.zoneName
        clusterName  == getZoneClusterName(originalZone)
        key          == bucketKey(isoDate, time, clusterName)
        withKey      == IF \E k \in 1..Len(map) : map[k].key = key
                        THEN map
                        ELSE Append(map, [key |-> key,
                                          pickupDateISO |-> isoDate,
                                          onOffDutyTime |-> time,
                                          clusterName |-> clusterName,
                                          zones |-> <<>>,
                                          count |-> 0,
                                          addresses |-> <<>>])
    IN  [k \in 1..Len(withKey) |->
            IF withKey[k].key = key
            THEN [withKey[k] EXCEPT
                    !.zones = setAdd(@, originalZone),
                    !.count = bucketCount(@, g),
                    !.addresses = @ \o g.addresses]
            ELSE withKey[k]]

\* for (const g of withPickupPointsByZone) { ... }, from group i on
RECURSIVE bucketLoop(_, _, _)
bucketLoop(gs, i, map) ==
    IF i > Len(gs) THEN map
    ELSE bucketLoop(gs, i + 1, bucketIteration(map, gs[i]))

\* the zones are listed as the Set holds them
formatBuckets_zonesUnsorted(map, dir) ==
    [k \in 1..Len(map) |->
        [pickupDateISO |-> toDDMMYY(map[k].pickupDateISO),
         onOffDutyTime |-> map[k].onOffDutyTime,
         zoneName      |-> map[k].clusterName,
         zones         |-> map[k].zones,
         count         |-> map[k].count,
         addresses     |-> optimiseRoute(map[k].addresses, dir)]]

\* the label is read from b.zoneName, a field the bucket does not have
formatBuckets_zoneNameField(map, dir) ==
    [k \in 1..Len(map) |->
        [pickupDateISO |-> toDDMMYY(map[k].pickupDateISO),
         onOffDutyTime |-> map[k].onOffDutyTime,
         zoneName      |-> null,
         zones         |-> sortSeq("zones", map[k].zones),
         count         |-> map[k].count,
         addresses     |-> optimiseRoute(map[k].addresses, dir)]]

\* (b) => { const orderedAddresses = optimiseRoute(b.addresses, direction);
\* return { ... } }
formatBucket(b, dir) ==
    [pickupDateISO |-> toDDMMYY(b.pickupDateISO),
     onOffDutyTime |-> b.onOffDutyTime,
     zoneName      |-> b.clusterName,
     zones         |-> sortSeq("zones", b.zones),
     count         |-> b.count,
     addresses     |-> optimiseRoute(b.addresses, dir)]

\* Array.from(bucketMap.values()).map((b) => ({ ... }))
formatBuckets(map, dir) == [k \in 1..Len(map) |-> formatBucket(map[k], dir)]

-----------------------------------------------------------------------------
(* Calls of the route optimiser on lists of stops *)

\* longest list of stops handed to the optimiser
MaxStops == 3

\* A stop is the address projection of one booking: coordinates and the
\* staff member it belongs to.  A, B and C lie south-west of Derriford, A2 is
\* a second booking at A's address, D lies north-east of Derriford,
\* StopNoPos has no coordinates and StopNoLng has a latitude only.
StopA == [lat |-> 504000, lng |-> -41500, staffName |-> "A"]
StopB == [lat |-> 503800, lng |-> -42000, staffName |-> "B"]
StopC == [lat |-> 504100, lng |-> -41100, staffName |-> "C"]
StopA2 == [lat |-> 504000, lng |-> -41500, staffName |-> "A2"]
StopD == [lat |-> 504395, lng |-> -40790, staffName |-> "D"]
StopNoPos == [lat |-> undefined, lng |-> undefined, staffName |-> "NoPos"]
StopNoLng == [lat |-> 504000, lng |-> undefined, staffName |-> "NoLng"]

StopSamples == {StopA, StopB, StopC, StopA2, StopD, StopNoPos, StopNoLng}

Directions == {"inbound", "outbound"}

RECURSIVE SeqsUpTo(_, _)
SeqsUpTo(S, n) ==
    IF n = 0 THEN {<<>>}
    ELSE LET shorter == SeqsUpTo(S, n - 1)
         IN  shorter \cup {Append(q, x) : q \in {r \in shorter : Len(r) = n - 1}, x \in S}

StopLists == SeqsUpTo(StopSamples, MaxStops)

\* no call is running
NoPos == [lat |-> undefined, lng |-> undefined]

RouteIdle ==
    /\ pc = "idle"
    /\ stops = <<>>
    /\ direction = "none"
    /\ remaining = <<>>
    /\ ordered = <<>>
    /\ current = NoPos
    /\ route = <<>>
    /\ returned = "none"

\* the clusterer as the process starts: the source's list, no call made
ClusterIdle == zoneClusters = ZONE_CLUSTERS /\ lookups = <<>>

\* the shift-groups requests that are served side by side
Requests == {1, 2}

\* the locals of a request that has not come in
IdleRun ==
    [pc |-> "idle", type |-> "none", groups |-> <<>>, next |-> 0,
     bucketMap |-> <<>>, formatted |-> <<>>]

\* the locals of a POST /api/bookings request that has not come in
IdlePost == [pc |-> "idle", body |-> "none", shortRef |-> 0, saved |-> <<>>, code |-> 0]

\* the body of the request has no field status
NotSent == <<-2>>

\* no handler that changes one booking has answered
NoResponse == [op |-> "none", id |-> 0, session |-> <<>>, sent |-> NotSent, code |-> 0]

\* the counter document does not exist, no creation is being served
StoreIdle ==
    /\ counter = 0
    /\ posts = [r \in Requests |-> IdlePost]
    /\ response = NoResponse

\* the server before the first booking and with no report running
ReportIdle ==
    /\ bookings = <<>>
    /\ reportPc = "idle"
    /\ reqType = "none"
    /\ groups = <<>>
    /\ bucketMap = <<>>
    /\ formatted = <<>>
    /\ runs = [r \in Requests |-> IdleRun]
    /\ zonePickups = NoZonePickups
    /\ StoreIdle

InitRoute == RouteIdle /\ ClusterIdle /\ ReportIdle

\* remaining is the array stops itself: a splice takes the stop out of both
stopsAfterSplice_sameArray(input, rem) == rem

\* const remaining = [...stops]: remaining is a new array, and a splice on it
\* leaves the array stops as it is
stopsAfterSplice(input, rem) == input

\* optimiseRoute(s, dir) without its early return: the inbound seed of an
\* empty list is remaining.splice(0, 1)[0], which is undefined
CallOptimiseRoute_noEarlyReturn ==
    /\ pc = "idle"
    /\ \E s \in StopLists, dir \in Directions :
        /\ stops' = s
        /\ direction' = dir
        /\ IF Len(s) = 0
           THEN /\ route' = IF dir = "inbound" THEN <<undefined>> ELSE <<>>
                /\ returned' = "ordered"
                /\ pc' = "done"
                /\ UNCHANGED <<remaining, ordered, current>>
           ELSE /\ remaining' = s
                /\ ordered' = <<>>
                /\ current' = IF dir = "inbound" THEN NoPos
                              ELSE [lat |-> DH_LAT, lng |-> DH_LNG]
                /\ pc' = IF dir = "inbound" THEN "seed" ELSE "walk"
                /\ UNCHANGED <<route, returned>>
    /\ UNCHANGED notRouteVars

\* optimiseRoute(s, dir) is entered: the early return for a list of at most
\* one stop, else remaining = [...stops], ordered = []
CallOptimiseRoute ==
    /\ pc = "idle"
    /\ \E s \in StopLists, dir \in Directions :
        /\ stops' = s
        /\ direction' = dir
        /\ IF Len(s) <= 1
           THEN \* return stops: the caller gets the array it passed in
                /\ route' = s
                /\ returned' = "stops"
                /\ pc' = "done"
                /\ UNCHANGED <<remaining, ordered, current>>
           ELSE /\ remaining' = s
                /\ ordered' = <<>>
                /\ current' = IF dir = "inbound" THEN NoPos
                              ELSE [lat |-> DH_LAT, lng |-> DH_LNG]
                /\ pc' = IF dir = "inbound" THEN "seed" ELSE "walk"
                /\ UNCHANGED <<route, returned>>
    /\ UNCHANGED notRouteVars

\* inbound: the furthest stop is spliced out of remaining and starts the route
InboundSeed ==
    /\ pc = "seed"
    /\ LET startIdx == inboundStartIdx(remaining)
       IN  /\ current' = remaining[startIdx]
           /\ remaining' = RemoveAt(remaining, startIdx)
           /\ ordered' = Append(ordered, remaining[startIdx])
    /\ pc' = "walk"
    /\ stops' = stopsAfterSplice(stops, remaining')
    /\ UNCHANGED <<direction, route, returned>>
    /\ UNCHANGED notRouteVars

\* inbound: one turn of while (remaining.length)
InboundStep ==
    /\ pc = "walk"
    /\ direction = "inbound"
    /\ Len(remaining) > 0
    /\ LET bestIdx == inboundBestIdx(remaining, current)
       IN  /\ current' = remaining[bestIdx]
           /\ remaining' = RemoveAt(remaining, bestIdx)
           /\ ordered' = Append(ordered, remaining[bestIdx])
    /\ stops' = stopsAfterSplice(stops, remaining')
    /\ UNCHANGED <<pc, direction, route, returned>>
    /\ UNCHANGED notRouteVars

\* outbound: one turn of while (remaining.length)
OutboundStep ==
    /\ pc = "walk"
    /\ direction = "outbound"
    /\ Len(remaining) > 0
    /\ LET bestIdx == outboundBestIdx(remaining, current)
           next    == remaining[bestIdx]
       IN  /\ remaining' = RemoveAt(remaining, bestIdx)
           /\ ordered' = Append(ordered, next)
           /\ current' = [lat |-> next.lat, lng |-> next.lng]
    /\ stops' = stopsAfterSplice(stops, remaining')
    /\ UNCHANGED <<pc, direction, route, returned>>
    /\ UNCHANGED notRouteVars

\* return ordered
ReturnOrdered ==
    /\ pc = "walk"
    /\ Len(remaining) = 0
    /\ route' = ordered
    /\ returned' = "ordered"
    /\ pc' = "done"
    /\ UNCHANGED <<stops, direction, remaining, ordered, current>>
    /\ UNCHANGED notRouteVars

\* the caller has taken the result; the next call starts afresh
RouteTaken ==
    /\ pc = "done"
    /\ pc' = "idle"
    /\ stops' = <<>>
    /\ direction' = "none"
    /\ remaining' = <<>>
    /\ ordered' = <<>>
    /\ current' = NoPos
    /\ route' = <<>>
    /\ returned' = "none"
    /\ UNCHANGED notRouteVars

NextRoute ==
    \/ CallOptimiseRoute
    \/ InboundSeed
    \/ InboundStep
    \/ OutboundStep
    \/ ReturnOrdered
    \/ RouteTaken

SpecRoute == InitRoute /\ [][NextRoute]_vars

\* a call that has started runs to its return: the loops do not wait
SpecRouteFair ==
    /\ SpecRoute
    /\ WF_vars(InboundSeed)
    /\ WF_vars(InboundStep)
    /\ WF_vars(OutboundStep)
    /\ WF_vars(ReturnOrdered)

\* the stepwise run returns what the function computes
RouteAgrees == pc = "done" => route = optimiseRoute(stops, direction)

-----------------------------------------------------------------------------
(* Calls of the zone clusterer *)

\* number of latest calls kept in lookups
MaxLookups == 2

\* The source invites more clusters ("You can extend with more cluster
\* definitions later if needed"): the list as it stands, the list with a
\* second cluster, and the list with a second cluster that repeats the alias
\* Mutley in another case.
ClusterConfigs ==
    { ZONE_CLUSTERS,
      ZONE_CLUSTERS \o << [label |-> sNorthLabel,
                           zones |-> <<sCrownhill, sPlympton>>] >>,
      ZONE_CLUSTERS \o << [label |-> sNorthLabel,
                           zones |-> <<sCrownhill, sMUTLEY>>] >> }

\* zone names as the zone lookup stores them, or as none is stored
ZoneNameSamples ==
    { sMutley, sMUTLEY, sMutleyLower, sMutleyPadded, sStJudeS, sCrownhill,
      sCROWNHILL, sCrownhillTab, sPlympton, sUnknown, sBlank, <<>>, null }

InitCluster ==
    /\ RouteIdle
    /\ ReportIdle
    /\ zoneClusters \in ClusterConfigs
    /\ lookups = <<>>

\* one call getZoneClusterName(z)
CallGetZoneClusterName ==
    /\ \E z \in ZoneNameSamples :
        LET call == [arg |-> z, label |-> getZoneClusterName(z)]
        IN  lookups' = IF Len(lookups) < MaxLookups
                       THEN Append(lookups, call)
                       ELSE Append(Tail(lookups), call)
    /\ UNCHANGED zoneClusters
    /\ UNCHANGED notClusterVars

NextCluster == CallGetZoneClusterName

SpecCluster == InitCluster /\ [][NextCluster]_vars

-----------------------------------------------------------------------------
(* The server: bookings are stored and the shift-groups report is asked for *)

\* most bookings in the collection
MaxBookings == 3

\* the hospital side of a booking
DerrifordAddress ==
    [zone |-> sDerriford, lat |-> DH_LAT, lng |-> DH_LNG,
     formatted |-> sDerrifordHospital, postCode |-> sPL68DH]

\* the address of a place as the booking form sends it: the address text,
\* and the post code where the place has one
HomeAddress(zone, lat, lng) ==
    [zone |-> zone, lat |-> lat, lng |-> lng,
     formatted |-> IF lat = 504000 THEN sMutleyPlain
                   ELSE IF lat = 503800 THEN sHillRd
                   ELSE sPlymouth,
     postCode  |-> IF lat = 504000 THEN sPL46JQ
                   ELSE IF lat = 503800 THEN sPL47AA
                   ELSE null]

\* a booking to the hospital for a shift start
StartBooking(date, time, zone, lat, lng, staff) ==
    [shiftType |-> "start", pickupDateISO |-> date, onOffDutyTime |-> time,
     pickup |-> HomeAddress(zone, lat, lng),
     destination |-> DerrifordAddress, staffName |-> staff]

\* a booking from the hospital after a shift finish
FinishBooking(date, time, zone, lat, lng, staff) ==
    [shiftType |-> "finish", pickupDateISO |-> date, onOffDutyTime |-> time,
     pickup |-> DerrifordAddress,
     destination |-> HomeAddress(zone, lat, lng),
     staffName |-> staff]

\* Bookings as POST /api/bookings stores them: the zone name is what the zone
\* lookup gave (any case, possibly empty or blank) or is missing; date and
\* time are the strings of the request, of which the handler asks only that
\* they are not blank.
BookingSamples ==
    { StartBooking(sDate1, sTime1, sMutley,    504000, -41500, "A"),
      StartBooking(sDate1, sTime1, sGREENBANK, 503800, -42000, "B"),
      StartBooking(sDate1, sTime2, sCrownhill, 504100, -41100, "C"),
      StartBooking(sDate2, sTime1, sMutley,    504395, -40790, "D"),
      StartBooking(sDate1, sTime1, null,       504000, -41500, "E"),
      StartBooking(sDate1, sTime1, sBlank,     504100, -41100, "F"),
      StartBooking(sDate1, sTime2, <<>>,       503800, -42000, "G"),
      StartBooking(sDate1, sTimeA, sMutley,    504000, -41500, "X1"),
      StartBooking(sDateTime, sA, sGreenbank,  503800, -42000, "X2"),
      FinishBooking(sDate1, sTime1, sMutley,   504000, -41500, "A") }

\* req.query.type in lower case: "start" (also the default), "finish", or any
\* other text, for which "all" stands
ReportTypes == {"start", "finish", "all"}

Init == RouteIdle /\ ClusterIdle /\ ReportIdle

\* POST /api/bookings: Booking.create
CreateBooking ==
    /\ reportPc = "idle"
    /\ Len(bookings) < MaxBookings
    /\ \E b \in BookingSamples : bookings' = Append(bookings, b)
    /\ UNCHANGED <<reportPc, reqType, groups, bucketMap, formatted>>
    /\ UNCHANGED notReportVars

\* GET /api/reports/shift-groups?type=...: the handler up to res.json, or up
\* to the answer 400 of its catch block
ShiftGroupsReport ==
    /\ reportPc = "idle"
    /\ \E type \in ReportTypes :
        LET dir == IF type = "finish" THEN "outbound" ELSE "inbound"
            gs  == aggregate(bookings, type)
            withPickupPointsByZone ==
                [k \in 1..Len(gs) |->
                    [gs[k] EXCEPT !.addresses =
                        applyZonePickupPointsToAddresses(gs[k].addresses,
                                                         gs[k].zoneName,
                                                         zonePickups)]]
            map == bucketLoop(withPickupPointsByZone, 1, <<>>)
            unsorted == formatBuckets(map, dir)
        IN  /\ reqType' = type
            /\ groups' = gs
            /\ bucketMap' = map
            /\ \E outcome \in sortOutcomes(unsorted) :
                IF outcome = "sorted"
                THEN /\ formatted' = sortSeq("formatted", unsorted)
                     /\ reportPc' = "done"
                ELSE \* catch (e): res.status(400).json({ error: e.message })
                     /\ formatted' = <<>>
                     /\ reportPc' = "failed"
    /\ UNCHANGED bookings
    /\ UNCHANGED notReportVars

\* the response is sent and the handler's locals are gone
ReportSent ==
    /\ reportPc \in {"done", "failed"}
    /\ reportPc' = "idle"
    /\ reqType' = "none"
    /\ groups' = <<>>
    /\ bucketMap' = <<>>
    /\ formatted' = <<>>
    /\ UNCHANGED bookings
    /\ UNCHANGED notReportVars

Next ==
    \/ CreateBooking
    \/ ShiftGroupsReport
    \/ ReportSent

Spec == Init /\ [][Next]_vars

-----------------------------------------------------------------------------
(* The shift-groups report over a collection as the database holds it *)

\* most documents in the collection
MaxStored == 2

\* Documents of the Booking collection as the report's aggregation reads
\* them from the database, which does not check them against the schema:
\* complete ones, and ones without date, time, coordinates or zone name.
StoredSamples ==
    { StartBooking(sDate1, sTime1, sMutley,    504000, -41500, "A"),
      StartBooking(sDate1, sTime2, sCrownhill, 504100, -41100, "C"),
      StartBooking(null,   sTime1, sMutley,    503800, -42000, "NoDate"),
      StartBooking(sDate1, null,   sMutley,    504395, -40790, "NoTime"),
      StartBooking(sDate1, sTime1, sGreenbank, undefined, undefined, "NoPos"),
      StartBooking(sDate1, sTime1, null,       undefined, undefined, "NoZoneNoPos"),
      FinishBooking(sDate1, sTime1, sMutley,   504000, -41500, "A") }

StoredLists == SeqsUpTo(StoredSamples, MaxStored)

InitStored ==
    /\ RouteIdle
    /\ ClusterIdle
    /\ bookings \in StoredLists
    /\ reportPc = "idle"
    /\ reqType = "none"
    /\ groups = <<>>
    /\ bucketMap = <<>>
    /\ formatted = <<>>
    /\ runs = [r \in Requests |-> IdleRun]
    /\ zonePickups = NoZonePickups
    /\ StoreIdle

NextStored ==
    \/ ShiftGroupsReport
    \/ ReportSent

SpecStored == InitStored /\ [][NextStored]_vars

-----------------------------------------------------------------------------
(* The shift-groups report with pickup points configured *)

\* most bookings in the collection
MaxPickupBookings == 2

\* an entry that is an object; a field that is not set is null, and
\* postcodes is <<>> when it is not an array
PickupEntry(label, exact, contains, postcodes) ==
    [type |-> "object", label |-> label, exact |-> exact,
     contains |-> contains, postcodes |-> postcodes]

\* an entry that is a string
PickupName(value) == [type |-> "string", value |-> value]

\* Contents of the zone-pickups file as PUT /api/settings/zone-pickups
\* stores them (any object keyed by zone): no key; a key in another case
\* than the zone name with a string entry; object entries that match by post
\* code, by text and without a label; a key whose value is no array.
ZonePickupSamples ==
    { NoZonePickups,
      << [key |-> sMutleyLower, isArray |-> TRUE,
          entries |-> <<PickupName(sMutleyPlainLower)>>] >>,
      << [key |-> sMutley, isArray |-> TRUE,
          entries |-> << PickupEntry(null, null, sMutleyPlainLower, <<>>),
                         PickupEntry(sCoop, null, null, <<sPL46JQ>>),
                         PickupEntry(sBusStop, sMutleyPlain, null, <<>>) >>],
         [key |-> sGreenbank, isArray |-> TRUE,
          entries |-> << [type |-> "number"],
                         PickupEntry(sBusStop, null, sPlymouth, <<sPL47AA>>) >>] >>,
      << [key |-> sMutley, isArray |-> FALSE, entries |-> <<>>],
         [key |-> sMUTLEY, isArray |-> TRUE,
          entries |-> <<PickupName(sMutleyPlain)>>] >> }

\* Bookings with their address texts: two at labelled places in zones of one
\* cluster, one in the zone Mutley at a place without post code, one finish
PickupSamples ==
    { StartBooking(sDate1, sTime1, sMutley,    504000, -41500, "A"),
      StartBooking(sDate1, sTime1, sGREENBANK, 503800, -42000, "B"),
      StartBooking(sDate1, sTime1, sMutley,    504100, -41100, "C"),
      FinishBooking(sDate1, sTime1, sMutley,   504000, -41500, "A") }

\* PUT /api/settings/zone-pickups: saveZonePickupsSafe(body)
PutZonePickups ==
    /\ reportPc = "idle"
    /\ \E body \in ZonePickupSamples : zonePickups' = body
    /\ UNCHANGED <<pc, stops, direction, remaining, ordered, current, route,
                   returned, zoneClusters, lookups, runs, counter, posts,
                   response>>
    /\ UNCHANGED reportVars

InitPickups ==
    /\ RouteIdle
    /\ ClusterIdle
    /\ bookings \in SeqsUpTo(PickupSamples, MaxPickupBookings)
    /\ reportPc = "idle"
    /\ reqType = "none"
    /\ groups = <<>>
    /\ bucketMap = <<>>
    /\ formatted = <<>>
    /\ runs = [r \in Requests |-> IdleRun]
    /\ zonePickups = NoZonePickups
    /\ StoreIdle

NextPickups ==
    \/ PutZonePickups
    \/ ShiftGroupsReport
    \/ ReportSent

SpecPickups == InitPickups /\ [][NextPickups]_vars

-----------------------------------------------------------------------------
(* Shift-groups requests served side by side, statement by statement *)

\* most bookings stored while the requests are served
MaxRunBookings == 3

\* the bookings that come in while the requests are served: A and B in zones
\* of one cluster at one date and time, C in another zone at another time
RunSamples ==
    { StartBooking(sDate1, sTime1, sMutley,    504000, -41500, "A"),
      StartBooking(sDate1, sTime1, sGREENBANK, 503800, -42000, "B"),
      StartBooking(sDate1, sTime2, sCrownhill, 504100, -41100, "C") }

\* const direction = type === "finish" ? "outbound" : "inbound"
directionOfType(type) == IF type = "finish" THEN "outbound" ELSE "inbound"

\* POST /api/bookings while reports are being served
RunCreateBooking ==
    /\ Len(bookings) < MaxRunBookings
    /\ \E b \in RunSamples : bookings' = Append(bookings, b)
    /\ UNCHANGED runs
    /\ UNCHANGED notRunVars

\* the handler is entered: type, match and pipeline are set up and
\* Booking.aggregate is awaited
RunStart(r) ==
    /\ runs[r].pc = "idle"
    /\ \E type \in ReportTypes :
        runs' = [runs EXCEPT ![r] = [IdleRun EXCEPT !.pc = "fetch", !.type = type]]
    /\ UNCHANGED bookings
    /\ UNCHANGED notRunVars

\* the aggregation answers with the groups of the bookings stored by now;
\* the pickup points are applied and the Map is made
RunAggregate(r) ==
    /\ runs[r].pc = "fetch"
    /\ LET gs == aggregate(bookings, runs[r].type)
           withPickupPointsByZone ==
               [k \in 1..Len(gs) |->
                   [gs[k] EXCEPT !.addresses =
                       applyZonePickupPointsToAddresses(gs[k].addresses,
                                                        gs[k].zoneName,
                                                        zonePickups)]]
       IN  runs' = [runs EXCEPT ![r] =
                       [@ EXCEPT !.pc = "bucketing",
                                 !.groups = withPickupPointsByZone,
                                 !.next = 1]]
    /\ UNCHANGED bookings
    /\ UNCHANGED notRunVars

\* the Map is one of the module, shared by all requests
RunBucket_shared(r) ==
    /\ runs[r].pc = "bucketing"
    /\ runs[r].next <= Len(runs[r].groups)
    /\ runs' = [q \in Requests |->
                   IF q = r
                   THEN [runs[q] EXCEPT
                           !.bucketMap = bucketIteration(@, runs[r].groups[runs[r].next]),
                           !.next = @ + 1]
                   ELSE [runs[q] EXCEPT
                           !.bucketMap = bucketIteration(@, runs[r].groups[runs[r].next])]]
    /\ UNCHANGED bookings
    /\ UNCHANGED notRunVars

\* one turn of the loop over the groups
RunBucket(r) ==
    /\ runs[r].pc = "bucketing"
    /\ runs[r].next <= Len(runs[r].groups)
    /\ runs' = [runs EXCEPT ![r] =
                   [@ EXCEPT !.bucketMap = bucketIteration(@, runs[r].groups[runs[r].next]),
                             !.next = @ + 1]]
    /\ UNCHANGED bookings
    /\ UNCHANGED notRunVars

\* the loop over the groups is left; the buckets are taken in turn
RunBucketsDone(r) ==
    /\ runs[r].pc = "bucketing"
    /\ runs[r].next > Len(runs[r].groups)
    /\ runs' = [runs EXCEPT ![r] = [@ EXCEPT !.pc = "sequencing", !.next = 1]]
    /\ UNCHANGED bookings
    /\ UNCHANGED notRunVars

\* one call of the callback of Array.from(bucketMap.values()).map
RunSequence(r) ==
    /\ runs[r].pc = "sequencing"
    /\ runs[r].next <= Len(runs[r].bucketMap)
    /\ runs' = [runs EXCEPT ![r] =
                   [@ EXCEPT !.formatted =
                                Append(@, formatBucket(runs[r].bucketMap[runs[r].next],
                                                       directionOfType(runs[r].type))),
                             !.next = @ + 1]]
    /\ UNCHANGED bookings
    /\ UNCHANGED notRunVars

\* formatted.sort(...), then res.json, or the answer 400 of the catch block
RunSort(r) ==
    /\ runs[r].pc = "sequencing"
    /\ runs[r].next > Len(runs[r].bucketMap)
    /\ \E outcome \in sortOutcomes(runs[r].formatted) :
        runs' = [runs EXCEPT ![r] =
                    IF outcome = "sorted"
                    THEN [@ EXCEPT !.formatted = sortSeq("formatted", @),
                                   !.pc = "done"]
                    ELSE [@ EXCEPT !.formatted = <<>>, !.pc = "failed"]]
    /\ UNCHANGED bookings
    /\ UNCHANGED notRunVars

\* the response is sent and the handler's locals are gone
RunSent(r) ==
    /\ runs[r].pc \in {"done", "failed"}
    /\ runs' = [runs EXCEPT ![r] = IdleRun]
    /\ UNCHANGED bookings
    /\ UNCHANGED notRunVars

NextRuns ==
    \/ RunCreateBooking
    \/ \E r \in Requests : RunStart(r)
    \/ \E r \in Requests : RunAggregate(r)
    \/ \E r \in Requests : RunBucket(r)
    \/ \E r \in Requests : RunBucketsDone(r)
    \/ \E r \in Requests : RunSequence(r)
    \/ \E r \in Requests : RunSort(r)
    \/ \E r \in Requests : RunSent(r)

SpecRuns == Init /\ [][NextRuns]_vars

-----------------------------------------------------------------------------
(* Properties of the route optimiser *)

HasCoords(s) == IsNumber(s.lat) /\ IsNumber(s.lng)

\* positions of the stops of a list that have both coordinates
CoordIdx(list) == {i \in 1..Len(list) : HasCoords(list[i])}

\* number of positions of a list that hold x
Count(list, x) == Cardinality({i \in 1..Len(list) : list[i] = x})

\* the two lists hold the same elements, each the same number of times
SameMultiset(l1, l2) ==
    /\ Len(l1) = Len(l2)
    /\ \A i \in 1..Len(l1) : Count(l1, l1[i]) = Count(l2, l1[i])

\* distance between two places, infinite when either has no coordinates
Distance(p, q) ==
    IF HasCoords(p) /\ HasCoords(q)
    THEN haversineDistance(p.lat, p.lng, q.lat, q.lng)
    ELSE Infinity

Hub == [lat |-> DH_LAT, lng |-> DH_LNG]

\* first position among I whose stop is furthest from the place p
FirstFurthest(list, I, p) ==
    CHOOSE i \in I : \A j \in I :
        /\ Distance(p, list[j]) <= Distance(p, list[i])
        /\ Distance(p, list[j]) = Distance(p, list[i]) => i <= j

\* first position among I whose stop is nearest to the place p
FirstNearest(list, I, p) ==
    CHOOSE i \in I : \A j \in I :
        /\ Distance(p, list[i]) <= Distance(p, list[j])
        /\ Distance(p, list[j]) = Distance(p, list[i]) => i <= j

\* a list without its element at position k
Without(list, k) ==
    [i \in 1..(Len(list) - 1) |-> IF i < k THEN list[i] ELSE list[i + 1]]

\* the transition places one more stop on the route
Places == Len(ordered') = Len(ordered) + 1

\* C1: whatever the list and the direction, the returned route holds exactly
\* the stops of the input, each as often as the input holds it.
C1_RouteIsPermutation ==
    pc = "done" => SameMultiset(route, stops)

\* C1 witness: a finished call on a list with a repeated stop and a stop
\* without coordinates
C1_Witness ==
    /\ pc = "done"
    /\ Len(stops) = 3
    /\ \E i, j \in 1..Len(stops) : i # j /\ stops[i] = stops[j]
    /\ \E i \in 1..Len(stops) : ~HasCoords(stops[i])
    /\ route # stops

\* C4: an inbound route over two or more stops starts with the stop furthest
\* from the hub among the stops with coordinates, the first of them in input
\* order when several are equally far.
C4_InboundSeedFurthest ==
    (pc = "done" /\ direction = "inbound" /\ Len(stops) >= 2
        /\ CoordIdx(stops) # {})
    => route[1] = stops[FirstFurthest(stops, CoordIdx(stops), Hub)]

\* C4 witness: two different stops share the greatest distance and the
\* earlier one, which is not the head of the input, starts the route
C4_Witness ==
    /\ pc = "done"
    /\ direction = "inbound"
    /\ stops = <<StopC, StopA2, StopA>>
    /\ route[1] = StopA2

\* C5: every inbound step after the seed places, of the unplaced stops with
\* coordinates, the one nearest to the stop placed last, the first of them in
\* the order of the unplaced stops when several are equally near.
C5_InboundStepNearest ==
    [][(pc = "walk" /\ direction = "inbound" /\ Places
            /\ CoordIdx(remaining) # {})
        => LET k == FirstNearest(remaining, CoordIdx(remaining),
                                 ordered[Len(ordered)])
           IN  /\ ordered' = Append(ordered, remaining[k])
               /\ remaining' = Without(remaining, k)]_vars

\* C5 witness: after the seed B, of the equally near A2 and A the earlier is
\* placed
C5_Witness ==
    /\ pc = "walk"
    /\ direction = "inbound"
    /\ stops = <<StopA2, StopB, StopA>>
    /\ ordered = <<StopB, StopA2>>
    /\ remaining = <<StopA>>

\* C6: every outbound step places the unplaced stop nearest to the place
\* left last, which is the hub for the first step and the stop placed last
\* afterwards; the first in the order of the unplaced stops on a tie.
C6_OutboundStepNearest ==
    [][(pc = "walk" /\ direction = "outbound" /\ Places)
        => LET from == IF Len(ordered) = 0 THEN Hub ELSE ordered[Len(ordered)]
               k    == FirstNearest(remaining, 1..Len(remaining), from)
           IN  /\ ordered' = Append(ordered, remaining[k])
               /\ remaining' = Without(remaining, k)]_vars

\* C6 witness: C is nearest to the hub; A follows although D is nearer to
\* the hub, because A is nearer to C
C6_Witness ==
    /\ pc = "done"
    /\ direction = "outbound"
    /\ stops = <<StopD, StopA, StopC>>
    /\ route = <<StopC, StopA, StopD>>

-----------------------------------------------------------------------------
(* Properties of the zone clusterer *)

\* a code unit with an ASCII capital folded to its small letter
FoldCode(c) == IF c \in 65..90 THEN c + 32 ELSE c

\* the two strings are equal up to the case of their letters
SameIgnoringCase(s, t) ==
    /\ Len(s) = Len(t)
    /\ \A i \in 1..Len(s) : FoldCode(s[i]) = FoldCode(t[i])

\* the string a zone name stands for: "" when there is none
NameOf(z) == IF z = null THEN <<>> ELSE z

\* positions of a string that hold no white space
InkIdx(s) == {i \in 1..Len(s) : s[i] \notin {9, 10, 11, 12, 13, 32, 160}}

\* a string without the white space around it
Core(s) ==
    IF InkIdx(s) = {} THEN <<>>
    ELSE SubSeq(s, CHOOSE i \in InkIdx(s) : \A j \in InkIdx(s) : i <= j,
                   CHOOSE i \in InkIdx(s) : \A j \in InkIdx(s) : j <= i)

\* clusters of a configuration that list s as an alias, ignoring case
ClustersListing(clusters, s) ==
    {i \in 1..Len(clusters) :
        \E j \in 1..Len(clusters[i].zones) :
            SameIgnoringCase(clusters[i].zones[j], s)}

\* the label of the first cluster that lists s
FirstListingLabel(clusters, s) ==
    clusters[CHOOSE i \in ClustersListing(clusters, s) :
                \A j \in ClustersListing(clusters, s) : i <= j].label

\* some alias belongs to two clusters of the configuration, ignoring case
AliasShared(clusters) ==
    \E i \in 1..Len(clusters) : \E j \in 1..Len(clusters[i].zones) :
        Cardinality(ClustersListing(clusters, clusters[i].zones[j])) > 1

\* C7: a zone name that is not empty once trimmed gets the label of the
\* first configured cluster with an alias equal to the trimmed name ignoring
\* case, and the trimmed name itself, in its own case, when no cluster has one.
C7_FirstClusterOrOwnName ==
    \A k \in 1..Len(lookups) :
        LET name == Core(NameOf(lookups[k].arg))
        IN  name # <<>> =>
                lookups[k].label =
                    IF ClustersListing(zoneClusters, name) # {}
                    THEN FirstListingLabel(zoneClusters, name)
                    ELSE name

\* C7 witness: " Mutley " got the cluster's label and "CROWNHILL", which no
\* cluster lists, its own name
C7_Witness ==
    /\ zoneClusters = ZONE_CLUSTERS
    /\ lookups = << [arg |-> sMutleyPadded, label |-> sClusterLabel],
                    [arg |-> sCROWNHILL, label |-> sCROWNHILL] >>

\* C8: two zone names that differ only in the case of their letters get the
\* same label when one of them matches a configured alias.
C8_CaseInsensitive ==
    \A k, m \in 1..Len(lookups) :
        (/\ SameIgnoringCase(NameOf(lookups[k].arg), NameOf(lookups[m].arg))
         /\ ClustersListing(zoneClusters, Core(NameOf(lookups[k].arg))) # {})
        => lookups[k].label = lookups[m].label

\* C8 witness: "MUTLEY" and "mutley" were both looked up and got the
\* cluster's label
C8_Witness ==
    /\ Len(lookups) = 2
    /\ lookups[1].arg = sMUTLEY
    /\ lookups[2].arg = sMutleyLower
    /\ lookups[1].label = sClusterLabel
    /\ lookups[2].label = sClusterLabel

-----------------------------------------------------------------------------
(* Properties of the shift-groups report *)

\* the concatenation of the address lists of the groups of gs, from group i
\* on, whose date, time and cluster label are those of the bucket b
RECURSIVE StopsFor(_, _, _)
StopsFor(gs, i, b) ==
    IF i > Len(gs) THEN <<>>
    ELSE (IF /\ gs[i].pickupDateISO = b.pickupDateISO
             /\ gs[i].onOffDutyTime = b.onOffDutyTime
             /\ getZoneClusterName(gs[i].zoneName) = b.clusterName
          THEN gs[i].addresses ELSE <<>>) \o StopsFor(gs, i + 1, b)

\* C2: every stop handed to the aggregation step sits in exactly one bucket,
\* the one whose date, time and cluster label are the stop's: no two buckets
\* have the same triple, every group has its bucket, and a bucket holds the
\* stops of the groups with its triple, each as often as they hold it.
C2_BucketCompleteness ==
    reportPc = "done" =>
        /\ \A i, j \in 1..Len(bucketMap) :
            (/\ bucketMap[i].pickupDateISO = bucketMap[j].pickupDateISO
             /\ bucketMap[i].onOffDutyTime = bucketMap[j].onOffDutyTime
             /\ bucketMap[i].clusterName = bucketMap[j].clusterName) => i = j
        /\ \A g \in 1..Len(groups) : \E k \in 1..Len(bucketMap) :
            /\ bucketMap[k].pickupDateISO = groups[g].pickupDateISO
            /\ bucketMap[k].onOffDutyTime = groups[g].onOffDutyTime
            /\ bucketMap[k].clusterName = getZoneClusterName(groups[g].zoneName)
        /\ \A k \in 1..Len(bucketMap) :
            SameMultiset(bucketMap[k].addresses, StopsFor(groups, 1, bucketMap[k]))

\* C2 witness: three groups were aggregated into two buckets, one of them
\* merged from two zones
C2_Witness ==
    /\ reportPc = "done"
    /\ Len(groups) = 3
    /\ Len(bucketMap) = 2
    /\ \E k \in 1..Len(bucketMap) :
        Len(bucketMap[k].zones) = 2 /\ Len(bucketMap[k].addresses) = 2

\* the calendar order of a date of the response, written DD-MM-YY: year,
\* month, day
CalendarKey(d) == SubSeq(d, 7, 8) \o SubSeq(d, 4, 5) \o SubSeq(d, 1, 2)

\* group g does not sort after group h by date, then time, then label
NotAfter(g, h) ==
    IF CalendarKey(g.pickupDateISO) # CalendarKey(h.pickupDateISO)
    THEN CodeUnitLess(CalendarKey(g.pickupDateISO), CalendarKey(h.pickupDateISO))
    ELSE IF g.onOffDutyTime # h.onOffDutyTime
    THEN CodeUnitLess(g.onOffDutyTime, h.onOffDutyTime)
    ELSE g.zoneName = h.zoneName \/ CodeUnitLess(g.zoneName, h.zoneName)

\* C3: the groups of the response are in ascending order of calendar date,
\* then time, then cluster label, also across months and years.
C3_SortedByDateTimeLabel ==
    reportPc = "done" =>
        \A i \in 1..(Len(formatted) - 1) : NotAfter(formatted[i], formatted[i + 1])

\* a zone name that is missing, empty or white space only
IsBlankZone(z) == InkIdx(NameOf(z)) = {}

\* the stops of the report's bookings with date d, time t and a blank zone name
BlankZoneStops(d, t) ==
    LET docs == matchBookings(bookings, reqType)
        idx  == {i \in 1..Len(docs) :
                    /\ docs[i].pickupDateISO = d
                    /\ docs[i].onOffDutyTime = t
                    /\ IsBlankZone(stopSide(docs[i], reqType).zone)}
    IN  {pushedAddress(docs[i], reqType) : i \in idx}

\* C9: the stops whose zone name is missing, empty or white space only and
\* that share date and time all sit in one bucket, whose cluster label is
\* "(unknown)".
C9_BlankZonesShareUnknownBucket ==
    reportPc = "done" =>
        \A d \in {sDate1, sDate2}, t \in {sTime1, sTime2} :
            BlankZoneStops(d, t) # {} =>
                \E k \in 1..Len(bucketMap) :
                    /\ bucketMap[k].pickupDateISO = d
                    /\ bucketMap[k].onOffDutyTime = t
                    /\ bucketMap[k].clusterName = sUnknown
                    /\ \A a \in BlankZoneStops(d, t) :
                        /\ \E n \in 1..Len(bucketMap[k].addresses) :
                            bucketMap[k].addresses[n] = a
                        /\ \A m \in 1..Len(bucketMap) : m # k =>
                            \A n \in 1..Len(bucketMap[m].addresses) :
                                bucketMap[m].addresses[n] # a

\* C9 witness: a booking without a zone name and one with a blank zone name,
\* same date and time, ended in the one "(unknown)" bucket, next to a bucket
\* of another time for the booking with the empty zone name
C9_Witness ==
    /\ reportPc = "done"
    /\ Len(bookings) = 3
    /\ \E i \in 1..3 : bookings[i].pickup.zone = null
    /\ \E i \in 1..3 : bookings[i].pickup.zone = sBlank
    /\ \E i \in 1..3 : bookings[i].pickup.zone = <<>>
    /\ Len(bucketMap) = 2
    /\ \A k \in 1..2 : bucketMap[k].clusterName = sUnknown

\* the bookings the running report reads
Matched == matchBookings(bookings, reqType)

\* a record that lacks its date or its time
Incomplete(b) == b.pickupDateISO = null \/ b.onOffDutyTime = null

\* C11: a record without date or time is left out of the bucketing: the
\* report answers without an error, no bucket stands for a missing date or
\* time, and no bucket holds the stop of such a record.
C11_IncompleteRecordsExcluded ==
    reportPc # "idle" =>
        /\ reportPc = "done"
        /\ \A k \in 1..Len(bucketMap) :
            /\ bucketMap[k].pickupDateISO # null
            /\ bucketMap[k].onOffDutyTime # null
            /\ \A n \in 1..Len(bucketMap[k].addresses) :
                \A i \in 1..Len(Matched) :
                    Incomplete(Matched[i]) =>
                        bucketMap[k].addresses[n] # pushedAddress(Matched[i], reqType)

\* date, time and cluster label of a group of the aggregation
Triple(g) ==
    <<g.pickupDateISO, g.onOffDutyTime, getZoneClusterName(g.zoneName)>>

\* the bucket a group of the aggregation was added to
BucketOf(g) ==
    CHOOSE k \in 1..Len(bucketMap) :
        bucketMap[k].key = bucketKey(g.pickupDateISO, g.onOffDutyTime,
                                     getZoneClusterName(g.zoneName))

\* C12: bucket keys are unique: no two buckets have the same date, time and
\* cluster label, stops whose triples differ sit in different buckets, and
\* there are as many groups in the response as distinct triples among the
\* stops.
C12_BucketKeysUnique ==
    reportPc = "done" =>
        /\ \A i, j \in 1..Len(bucketMap) :
            (/\ bucketMap[i].pickupDateISO = bucketMap[j].pickupDateISO
             /\ bucketMap[i].onOffDutyTime = bucketMap[j].onOffDutyTime
             /\ bucketMap[i].clusterName = bucketMap[j].clusterName) => i = j
        /\ \A g, h \in 1..Len(groups) :
            Triple(groups[g]) # Triple(groups[h]) =>
                BucketOf(groups[g]) # BucketOf(groups[h])
        /\ Len(formatted) = Cardinality({Triple(groups[g]) : g \in 1..Len(groups)})

-----------------------------------------------------------------------------
(* Further properties of the route optimiser *)

\* C13: for a list of no stop or of one stop the optimiser returns the list as
\* it is, for either direction.
C13_ShortListUnchanged ==
    (pc = "done" /\ Len(stops) <= 1) => route = stops

\* C13 witness: an outbound call on a single stop has returned
C13_Witness ==
    /\ pc = "done"
    /\ Len(stops) = 1
    /\ direction = "outbound"
    /\ route = stops

\* place of the record x in a list that holds it
PosIn(list, x) == CHOOSE i \in 1..Len(list) : list[i] = x

\* two different records at the same coordinates, each once in the list
TiedPair(list, i, j) ==
    /\ i < j
    /\ list[i] # list[j]
    /\ HasCoords(list[i])
    /\ list[i].lat = list[j].lat
    /\ list[i].lng = list[j].lng
    /\ Count(list, list[i]) = 1
    /\ Count(list, list[j]) = 1

C16_DistanceSymmetric ==
    /\ \A i, j \in 1..Len(stops) :
        haversineDistance(stops[i].lat, stops[i].lng, stops[j].lat, stops[j].lng)
          = haversineDistance(stops[j].lat, stops[j].lng, stops[i].lat, stops[i].lng)
    /\ \A i \in 1..Len(stops) :
        haversineDistance(stops[i].lat, stops[i].lng, DH_LAT, DH_LNG)
          = haversineDistance(DH_LAT, DH_LNG, stops[i].lat, stops[i].lng)

\* C16 witness: the walk is under way over stops at different latitudes and
\* longitudes, more than a kilometre apart
C16_Witness ==
    /\ pc = "walk"
    /\ \E i, j \in 1..Len(stops) :
        /\ HasCoords(stops[i]) /\ HasCoords(stops[j])
        /\ stops[i].lat # stops[j].lat
        /\ stops[i].lng # stops[j].lng
        /\ Distance(stops[i], stops[j]) > 1000000

\* no stop without coordinates stands before a stop with coordinates
CoordlessLast(list) ==
    \A i, j \in 1..Len(list) :
        (i < j /\ ~HasCoords(list[i])) => ~HasCoords(list[j])

\* C17: stops without coordinates come last: at every point of the walk no
\* stop without coordinates has been placed before one with coordinates, none
\* has been placed while a stop with coordinates was still unplaced, and the
\* returned route has them at its end.
C17_CoordlessStopsLast ==
    /\ CoordlessLast(ordered)
    /\ (\E i \in 1..Len(ordered) : ~HasCoords(ordered[i])) =>
            \A k \in 1..Len(remaining) : ~HasCoords(remaining[k])
    /\ (pc = "done" /\ Len(stops) > 1) => CoordlessLast(route)

\* C17 witness: an inbound list that begins with a stop without coordinates
\* was routed with that stop last
C17_Witness ==
    /\ pc = "done"
    /\ direction = "inbound"
    /\ Len(stops) = 3
    /\ ~HasCoords(stops[1])
    /\ HasCoords(stops[2]) /\ HasCoords(stops[3])
    /\ route[3] = stops[1]

\* C18: the optimiser terminates: each turn of seed and walk moves exactly
\* one stop from remaining to ordered, a call on n stops returns after n
\* placements with remaining empty, and every call that has started returns.
C18_SequencerTerminates ==
    /\ [][(pc \in {"seed", "walk"} /\ Len(remaining) > 0) =>
            /\ Len(remaining') = Len(remaining) - 1
            /\ Len(ordered') = Len(ordered) + 1
            /\ \E k \in 1..Len(remaining) :
                /\ ordered' = Append(ordered, remaining[k])
                /\ remaining' = Without(remaining, k)]_vars
    /\ []((pc = "done" /\ Len(stops) > 1) =>
            /\ Len(ordered) = Len(stops)
            /\ remaining = <<>>
            /\ route = ordered)
    /\ (pc \in {"seed", "walk"}) ~> (pc = "done")

\* C18 witness: a call on three stops has returned after three placements
C18_Witness ==
    /\ pc = "done"
    /\ Len(stops) = 3
    /\ Len(ordered) = 3
    /\ remaining = <<>>

-----------------------------------------------------------------------------
(* Further properties of the shift-groups report *)

\* C15: no exception comes out of the core: when every record the report
\* reads has its date and its time, with or without coordinates and zone
\* name, the handler runs to its answer and gives one group for each bucket.
C15_NoExceptionFromCore ==
    (reportPc # "idle" /\ \A i \in 1..Len(Matched) : ~Incomplete(Matched[i])) =>
        /\ reportPc = "done"
        /\ Len(formatted) = Len(bucketMap)

\* C15 witness: a report over two records with date and time and without
\* coordinates, one of them without a zone name, has answered with the two
\* groups of one date and time
C15_Witness ==
    /\ reportPc = "done"
    /\ Len(Matched) = 2
    /\ \A i \in 1..2 : ~Incomplete(Matched[i]) /\ Matched[i].pickup.lat = undefined
    /\ \E i \in 1..2 : Matched[i].pickup.zone = null
    /\ Len(formatted) = 2
    /\ formatted[1].pickupDateISO = formatted[2].pickupDateISO
    /\ formatted[1].onOffDutyTime = formatted[2].onOffDutyTime

\* C19: in every group of the answer the count is the number of stops in the
\* group's ordered list of addresses, also when the group was merged from the
\* groups of several zones.
C19_CountIsNumberOfStops ==
    /\ \A k \in 1..Len(bucketMap) :
        bucketMap[k].count = Len(bucketMap[k].addresses)
    /\ \A k \in 1..Len(formatted) :
        formatted[k].count = Len(formatted[k].addresses)

\* C19 witness: a group merged from two zones, one of them with two
\* bookings, has been answered with count 3
C19_Witness ==
    /\ reportPc = "done"
    /\ \E k \in 1..Len(formatted) :
        /\ Len(formatted[k].zones) = 2
        /\ formatted[k].count = 3
        /\ Len(formatted[k].addresses) = 3
    /\ \E g \in 1..Len(groups) : groups[g].count = 2

\* the zone name of a record as the report reads it: "(unknown)" stands for a
\* missing or empty one
OriginalZone(b) ==
    LET z == stopSide(b, reqType).zone
    IN  IF z = null \/ z = <<>> THEN sUnknown ELSE z

\* the records whose stop is in group k of the answer
RecordsOf(k) ==
    {i \in 1..Len(Matched) :
        \E n \in 1..Len(formatted[k].addresses) :
            formatted[k].addresses[n] = pushedAddress(Matched[i], reqType)}

\* C20: the zones of each group of the answer are the original zone names of
\* the stops in the group and no other, each once, in ascending order.
C20_ZonesOfGroupSorted ==
    reportPc = "done" =>
        \A k \in 1..Len(formatted) :
            LET zones == formatted[k].zones
            IN  /\ {zones[n] : n \in 1..Len(zones)}
                      = {OriginalZone(Matched[i]) : i \in RecordsOf(k)}
                /\ \A n \in 1..(Len(zones) - 1) : CodeUnitLess(zones[n], zones[n + 1])

\* C20 witness: a group of two stops from the zones Mutley and GREENBANK
\* lists the two names, next to a group of another zone
C20_Witness ==
    /\ reportPc = "done"
    /\ Len(formatted) = 2
    /\ \E k \in 1..2 :
        /\ formatted[k].zones = <<sGREENBANK, sMutley>>
        /\ Len(formatted[k].addresses) = 2
    /\ \E k \in 1..2 : formatted[k].zones = <<sUnknown>>

-----------------------------------------------------------------------------
(* Travel direction of a report *)

\* the direction that belongs to a booking's shift type
DirectionOf(b) == IF b.shiftType = "finish" THEN "outbound" ELSE "inbound"

\* the stop of a booking on the side away from the hospital
HomeStop(b) ==
    LET side == IF b.shiftType = "finish" THEN b.destination ELSE b.pickup
    IN  [formatted |-> side.formatted, postCode |-> side.postCode,
         lat |-> side.lat, lng |-> side.lng, staffName |-> b.staffName]

\* the zone of a booking on the side away from the hospital
HomeZone(b) ==
    IF b.shiftType = "finish" THEN b.destination.zone ELSE b.pickup.zone

\* C21: direction follows the shift type: the bookings of one report are all
\* of one shift type, each start booking gives its pickup as stop, grouped by
\* pickup zone and routed inbound, and each finish booking its destination,
\* grouped by destination zone and routed outbound.
C21_DirectionFollowsShiftType ==
    reportPc = "done" =>
        /\ \A i, j \in 1..Len(Matched) : Matched[i].shiftType = Matched[j].shiftType
        /\ \A i \in 1..Len(Matched) :
            \E g \in 1..Len(groups) :
                /\ groups[g].pickupDateISO = Matched[i].pickupDateISO
                /\ groups[g].onOffDutyTime = Matched[i].onOffDutyTime
                /\ groups[g].zoneName = (IF HomeZone(Matched[i]) = null
                                         THEN sUnknown ELSE HomeZone(Matched[i]))
                /\ \E n \in 1..Len(groups[g].addresses) :
                    groups[g].addresses[n] = HomeStop(Matched[i])
        /\ \A k \in 1..Len(formatted) :
            \E m \in 1..Len(bucketMap) :
                \A i \in RecordsOf(k) :
                    formatted[k].addresses
                      = optimiseRoute(bucketMap[m].addresses, DirectionOf(Matched[i]))

-----------------------------------------------------------------------------
(* Properties of the requests served side by side *)

\* list a is the beginning of list b
IsPrefix(a, b) == Len(a) <= Len(b) /\ SubSeq(b, 1, Len(a)) = a

\* all the stops of a list of groups or of buckets, in order
RECURSIVE AllStops(_, _)
AllStops(list, k) ==
    IF k > Len(list) THEN <<>> ELSE list[k].addresses \o AllStops(list, k + 1)

\* the key the loop gives the group
KeyOf(g) ==
    bucketKey(g.pickupDateISO, g.onOffDutyTime,
              getZoneClusterName(IF g.zoneName = null \/ g.zoneName = <<>>
                                 THEN sUnknown ELSE g.zoneName))

\* what a step does to the buckets of request r
BucketStepOf(r) ==
    LET old == runs[r].bucketMap
        new == runs'[r].bucketMap
        g   == runs[r].groups[runs[r].next]
    IN  \/ runs'[r].pc = "idle"
        \/ /\ runs[r].pc # "bucketing" => new = old
           /\ Len(old) <= Len(new)
           /\ \A k \in 1..Len(old) :
               /\ new[k].key = old[k].key
               /\ IsPrefix(old[k].addresses, new[k].addresses)
           /\ new # old =>
               /\ runs[r].next <= Len(runs[r].groups)
               /\ \/ /\ Len(new) = Len(old) + 1
                     /\ \A k \in 1..Len(old) : old[k].key # KeyOf(g) /\ new[k] = old[k]
                     /\ new[Len(new)].key = KeyOf(g)
                     /\ new[Len(new)].addresses = g.addresses
                     /\ new[Len(new)].count = g.count
                  \/ /\ Len(new) = Len(old)
                     /\ \E k \in 1..Len(old) :
                         /\ old[k].key = KeyOf(g)
                         /\ new[k].addresses = old[k].addresses \o g.addresses
                         /\ \A m \in 1..Len(old) : m # k => new[m] = old[m]

\* what a step does to the sequenced buckets of request r
SequenceStepOf(r) ==
    LET old == runs[r].formatted
        new == runs'[r].formatted
    IN  Len(new) > Len(old) =>
            /\ runs[r].pc = "sequencing"
            /\ SameMultiset(AllStops(runs[r].bucketMap, 1), AllStops(runs[r].groups, 1))
            /\ Len(new) = Len(old) + 1
            /\ IsPrefix(old, new)
            /\ new[Len(new)].zoneName = runs[r].bucketMap[Len(new)].clusterName
            /\ SameMultiset(new[Len(new)].addresses,
                            runs[r].bucketMap[Len(new)].addresses)

\* C22: the life of a bucket: it is set up with the first group of its key
\* and holds that group's stops, later groups only add stops at its end, all
\* groups are in the buckets before the first bucket is routed, each bucket is
\* routed once and in turn, and no bucket changes from then to the answer.
C22_BucketLifecycle ==
    /\ [][\A r \in Requests : BucketStepOf(r) /\ SequenceStepOf(r)]_vars
    /\ [](\A r \in Requests :
            /\ runs[r].pc = "sequencing" => Len(runs[r].formatted) = runs[r].next - 1
            /\ runs[r].pc \in {"sequencing", "done"} =>
                /\ Len(runs[r].formatted) <= Len(runs[r].bucketMap)
                /\ SameMultiset(AllStops(runs[r].bucketMap, 1),
                                AllStops(runs[r].groups, 1))
            /\ runs[r].pc = "done" =>
                /\ Len(runs[r].formatted) = Len(runs[r].bucketMap)
                /\ \A m \in 1..Len(runs[r].bucketMap) :
                    Cardinality({k \in 1..Len(runs[r].formatted) :
                        SameMultiset(runs[r].formatted[k].addresses,
                                     runs[r].bucketMap[m].addresses)}) = 1)

\* C22 witness: a request has answered with two buckets, one of which got
\* its two stops from two groups
C22_Witness ==
    \E r \in Requests :
        /\ runs[r].pc = "done"
        /\ Len(runs[r].groups) = 3
        /\ Len(runs[r].bucketMap) = 2
        /\ \E m \in 1..2 : Len(runs[r].bucketMap[m].addresses) = 2
        /\ Len(runs[r].formatted) = 2

\* the answer of a request that is served alone on the groups it fetched
AloneResult(gs, type) ==
    sortSeq("formatted", formatBuckets(bucketLoop(gs, 1, <<>>), directionOfType(type)))

\* C24: requests served side by side are independent: each answers with the
\* groups and stop order of a request served alone on the groups it fetched,
\* a step of one request leaves the locals of the other as they are, and no
\* step changes the zone clusters.
C24_RunsIndependent ==
    /\ [](\A r \in Requests :
            runs[r].pc = "done" =>
                runs[r].formatted = AloneResult(runs[r].groups, runs[r].type))
    /\ [][\A r, q \in Requests :
            (r # q /\ runs'[r] # runs[r]) => runs'[q] = runs[q]]_vars
    /\ [][zoneClusters' = zoneClusters]_vars

\* C24 witness: one request is between two buckets of its sequencing while
\* the other, which fetched other groups, is between two groups of its loop
C24_Witness ==
    /\ runs[1].pc = "sequencing"
    /\ runs[1].next = 2
    /\ Len(runs[1].bucketMap) = 2
    /\ runs[2].pc = "bucketing"
    /\ runs[2].next = 2
    /\ Len(runs[2].groups) = 2
    /\ runs[1].groups # runs[2].groups
    /\ \E k \in 1..2 : Len(runs[1].bucketMap[k].addresses) = 2

-----------------------------------------------------------------------------
(* The optimiser and the list it is given *)

\* a step inside a call leaves the array stops with the same records in the
\* same order
InputKept == (pc # "idle" /\ pc' # "idle") => stops' = stops

\* C23 as stated: the optimiser leaves the list it was given as it is, the
\* route holds the same records, and the route is always another list than
\* the one passed in.
C23_InputKeptRouteSeparate ==
    [][/\ InputKept
       /\ (pc # "done" /\ pc' = "done") =>
            /\ SameMultiset(route', stops')
            /\ returned' = "ordered"]_vars

\* C23 amended: the optimiser leaves the list it was given as it is and the
\* route holds the same records; for two or more stops the route is a new
\* list, for no stop or one stop it is the very list that was passed in.
C23_InputKeptRouteSeparateIfLong ==
    [][/\ InputKept
       /\ (pc # "done" /\ pc' = "done") =>
            /\ SameMultiset(route', stops')
            /\ Len(stops') > 1 => returned' = "ordered"
            /\ Len(stops') <= 1 => returned' = "stops"]_vars

\* C23 witness: a call on three stops has returned them in another order in
\* a new list, with the list passed in still holding the three
C23_Witness ==
    /\ pc = "done"
    /\ Len(stops) = 3
    /\ remaining = <<>>
    /\ returned = "ordered"
    /\ route # stops
    /\ SameMultiset(route, stops)

-----------------------------------------------------------------------------
(* Pickup-point labels *)

\* an address without its label fields
Unlabelled(addr) ==
    [f \in DOMAIN addr \ {"pickupPointLabel", "pickupPointZone"} |-> addr[f]]

\* the groups of an answer with the addresses without their label fields
UnlabelledGroups(list) ==
    [k \in 1..Len(list) |->
        [list[k] EXCEPT !.addresses =
            [n \in 1..Len(list[k].addresses) |-> Unlabelled(list[k].addresses[n])]]]

\* C25: the labels are cosmetic: for each group of the aggregation the
\* labelled addresses are the group's addresses, as many and in the same
\* order, with nothing but the label fields added, and the answer is the
\* answer given without any configuration but for the label fields.
C25_PickupLabelsCosmetic ==
    reportPc = "done" =>
        /\ \A g \in 1..Len(groups) :
            LET out == applyZonePickupPointsToAddresses(groups[g].addresses,
                                                        groups[g].zoneName,
                                                        zonePickups)
            IN  /\ Len(out) = Len(groups[g].addresses)
                /\ \A n \in 1..Len(out) : Unlabelled(out[n]) = groups[g].addresses[n]
        /\ UnlabelledGroups(formatted) = AloneResult(groups, reqType)

\* C25 witness: an answer with a bucket of two zones in which one address
\* has a label and another has none
C25_Witness ==
    /\ reportPc = "done"
    /\ zonePickups # NoZonePickups
    /\ \E k \in 1..Len(formatted) :
        /\ Len(formatted[k].zones) = 2
        /\ \E n \in 1..Len(formatted[k].addresses) :
            "pickupPointLabel" \in DOMAIN formatted[k].addresses[n]
        /\ \E n \in 1..Len(formatted[k].addresses) :
            "pickupPointLabel" \notin DOMAIN formatted[k].addresses[n]


-----------------------------------------------------------------------------
(* The booking store: creation, updates and status changes *)

\* the counter goes this far when updates run between the creations
MaxEditBookings == 2

\* the counter goes this far when the status changes run between the creations
MaxStatusBookings == 2

\* the counter goes this far when creations alone run side by side
MaxCreated == 3

\* "pending"
sPending == <<112, 101, 110, 100, 105, 110, 103>>
\* "approved"
sApproved == <<97, 112, 112, 114, 111, 118, 101, 100>>
\* "declined"
sDeclined == <<100, 101, 99, 108, 105, 110, 101, 100>>
\* " APPROVED"
sApprovedShout == <<32, 65, 80, 80, 82, 79, 86, 69, 68>>
\* "cancelled"
sCancelled == <<99, 97, 110, 99, 101, 108, 108, 101, 100>>
\* "NAC"
sNAC == <<78, 65, 67>>
\* "123456"
sBudget1 == <<49, 50, 51, 52, 53, 54>>
\* "654321"
sBudget2 == <<54, 53, 52, 51, 50, 49>>

\* BookingSchema: the enum of status
Statuses == {sPending, sApproved, sDeclined}

\* BookingSchema: the enum of shiftType
ShiftTypes == {"start", "finish"}

\* R * c <= meters, with the distance in millimetres
withinMeters(lat1, lng1, lat2, lng2, meters) ==
    Lt_orEqual(haversineDistance(lat1, lng1, lat2, lng2), meters * 1000)

\* isDerriford with 1200 for 900
isDerriford_wide(lat, lng) == withinMeters(lat, lng, DH_LAT, DH_LNG, 1200)

isDerriford(lat, lng) == withinMeters(lat, lng, DH_LAT, DH_LNG, 900)

flipShift(s) == IF s = "start" THEN "finish" ELSE "start"

\* no address: null, or an object without usable coordinates
NoAddress ==
    [zone |-> null, lat |-> undefined, lng |-> undefined,
     formatted |-> null, postCode |-> null]

\* an address 500 m north of the hospital
NearAddress == HomeAddress(null, 504240, -41090)

\* an address 1056 m north of the hospital
OutsideAddress == HomeAddress(null, 504290, -41090)

\* an address in Mutley, 3.6 km from the hospital
FarAddress == HomeAddress(sMutley, 504000, -41500)

\* an address object of which only the latitude is given, 1056 m north
OnlyLatitude == [NoAddress EXCEPT !.lat = 504290]

\* normaliseAddressShape: null for no object and for coordinates that
\* Number() turns into NaN, else the address with numeric coordinates
normaliseAddressShape(raw) ==
    IF raw = NoAddress \/ ~IsNumber(raw.lat) \/ ~IsNumber(raw.lng)
    THEN NoAddress
    ELSE raw

\* { ...current, ...patch }: the fields the patch has replace the current ones
mergeAddress(cur, patch) ==
    [zone      |-> IF patch.zone = null THEN cur.zone ELSE patch.zone,
     lat       |-> IF patch.lat = undefined THEN cur.lat ELSE patch.lat,
     lng       |-> IF patch.lng = undefined THEN cur.lng ELSE patch.lng,
     formatted |-> IF patch.formatted = null THEN cur.formatted ELSE patch.formatted,
     postCode  |-> IF patch.postCode = null THEN cur.postCode ELSE patch.postCode]

\* the decimal digits of a natural number
RECURSIVE digits(_)
digits(n) == IF n < 10 THEN <<48 + n>> ELSE Append(digits(n \div 10), 48 + (n % 10))

\* String(seq).padStart(3, "0")
RECURSIVE padStart3(_)
padStart3(s) == IF Len(s) >= 3 THEN s ELSE padStart3(<<48>> \o s)

\* nextShortRef: the text made of the counter value
shortRefOf(seq) == sNAC \o padStart3(digits(seq))

\* $inc that leaves the counter as it is
incSeq_none(seq) == seq

\* nextShortRef: { $inc: { seq: 1 } }, upsert from 0
incSeq(seq) == seq + 1

\* the Derriford rule on a booking object: the drop-off of a shift start, the
\* pickup of anything else
derrifordRule(b) ==
    IF b.shiftType = "start"
    THEN isDerriford(b.destination.lat, b.destination.lng)
    ELSE isDerriford(b.pickup.lat, b.pickup.lng)

\* typeof lat === "number" && typeof lng === "number" on both addresses
addressesValid(b) ==
    /\ IsNumber(b.pickup.lat) /\ IsNumber(b.pickup.lng)
    /\ IsNumber(b.destination.lat) /\ IsNumber(b.destination.lng)

\* the schema's validation at Booking.create and at save
validDoc(b) == b.shiftType \in ShiftTypes /\ b.status \in Statuses

\* the bodies of POST /api/bookings; the required texts are there and the
\* reason code and budget number are well formed in each
PostBodyNames ==
    {"start", "finish", "startReturn", "noReturnDate", "outside", "otherShift",
     "badAddress"}

PostBody(name) ==
    [shiftType     |-> IF name = "finish" THEN "finish"
                       ELSE IF name = "otherShift" THEN "other"
                       ELSE "start",
     pickupDateISO |-> sDate1,
     onOffDutyTime |-> sTime1,
     pickup        |-> IF name = "finish" THEN NearAddress
                       ELSE IF name = "otherShift" THEN DerrifordAddress
                       ELSE IF name = "badAddress" THEN OnlyLatitude
                       ELSE FarAddress,
     destination   |-> IF name \in {"finish", "otherShift"} THEN FarAddress
                       ELSE IF name = "outside" THEN OutsideAddress
                       ELSE DerrifordAddress,
     staffName     |-> "A",
     budgetNumber  |-> IF name \in {"finish", "noReturnDate"}
                       THEN sBudget2 ELSE sBudget1,
     requireReturn |-> name \in {"startReturn", "noReturnDate"},
     returnDateISO |-> IF name = "startReturn" THEN sDate2
                       ELSE IF name = "noReturnDate" THEN sBlank
                       ELSE null]

\* the document Booking.create is given
BookingDoc(b, shiftType, date, pickup, destination, shortRef, isReturn) ==
    [shiftType |-> shiftType, pickupDateISO |-> date,
     onOffDutyTime |-> b.onOffDutyTime,
     pickup |-> pickup, destination |-> destination,
     staffName |-> b.staffName, status |-> sPending,
     budgetNumber |-> b.budgetNumber, shortRef |-> shortRef,
     isReturn |-> isReturn]

\* the bookings a body asks for
docsOf(name) == IF PostBody(name).requireReturn THEN 2 ELSE 1

\* the short references the requests being served will still take
RefsAhead ==
    LET ahead(r) == IF posts[r].pc = "mainRef" THEN docsOf(posts[r].body)
                    ELSE IF posts[r].pc = "mainCreate" THEN docsOf(posts[r].body) - 1
                    ELSE IF posts[r].pc = "returnRef" THEN 1
                    ELSE 0
    IN  ahead(1) + ahead(2)

\* the counter has room for the short references of one more request
Room(name, cap) == counter + RefsAhead + docsOf(name) <= cap

\* what a step on the store leaves alone
notStoreVars == <<pc, stops, direction, remaining, ordered, current, route, returned,
                  zoneClusters, lookups, reportPc, reqType, groups, bucketMap,
                  formatted, runs, zonePickups>>

\* the request is answered with a status code
Answered(r, code) == [posts EXCEPT ![r].pc = "answered", ![r].code = code]

\* !b.returnDateISO || String(b.returnDateISO).trim() === ""
returnDateMissing(v) == v = null \/ v = <<>> \/ trim(v) = <<>>

\* POST /api/bookings up to the first await: the addresses are normalised and
\* the Derriford rule is checked on the body
PostReceive(r, name) ==
    /\ posts[r].pc = "idle"
    /\ LET b == PostBody(name)
           normPickup == normaliseAddressShape(b.pickup)
           normDest == normaliseAddressShape(b.destination)
           here == [posts EXCEPT ![r].body = name]
       IN  posts' =
             IF normPickup = NoAddress \/ normDest = NoAddress
             THEN [here EXCEPT ![r].pc = "answered", ![r].code = 400]
             ELSE IF ~derrifordRule([b EXCEPT !.pickup = normPickup,
                                              !.destination = normDest])
             THEN [here EXCEPT ![r].pc = "answered", ![r].code = 400]
             ELSE [here EXCEPT ![r].pc = "mainRef"]
    /\ UNCHANGED <<bookings, counter, response>>
    /\ UNCHANGED notStoreVars

\* b.shortRef = await nextShortRef()
PostMainRef(r) ==
    /\ posts[r].pc = "mainRef"
    /\ counter' = incSeq(counter)
    /\ posts' = [posts EXCEPT ![r].pc = "mainCreate", ![r].shortRef = counter']
    /\ UNCHANGED <<bookings, response>>
    /\ UNCHANGED notStoreVars

\* Booking.create({ ...b, isReturn: false }) and the statements up to the next
\* await: the answer when no return is asked for, the check of the return date
PostMainCreate(r) ==
    /\ posts[r].pc = "mainCreate"
    /\ LET b == PostBody(posts[r].body)
           doc == BookingDoc(b, b.shiftType, b.pickupDateISO,
                             normaliseAddressShape(b.pickup),
                             normaliseAddressShape(b.destination),
                             shortRefOf(posts[r].shortRef), FALSE)
           stored == [posts EXCEPT ![r].saved = <<Len(bookings) + 1>>]
       IN  IF ~validDoc(doc)
           THEN /\ bookings' = bookings
                /\ posts' = Answered(r, 400)
           ELSE /\ bookings' = Append(bookings, doc)
                /\ posts' =
                     IF ~b.requireReturn
                     THEN [stored EXCEPT ![r].pc = "answered", ![r].code = 200]
                     ELSE IF returnDateMissing(b.returnDateISO)
                     THEN [stored EXCEPT ![r].pc = "answered", ![r].code = 400]
                     ELSE [stored EXCEPT ![r].pc = "returnRef"]
    /\ UNCHANGED <<counter, response>>
    /\ UNCHANGED notStoreVars

\* the return booking: its addresses are the swapped ones, then
\* shortRef: await nextShortRef()
PostReturnRef(r) ==
    /\ posts[r].pc = "returnRef"
    /\ LET b == PostBody(posts[r].body)
           rbPickup == normaliseAddressShape(b.destination)
           rbDest == normaliseAddressShape(b.pickup)
       IN  IF rbPickup = NoAddress \/ rbDest = NoAddress
           THEN /\ posts' = Answered(r, 400)
                /\ counter' = counter
           ELSE /\ counter' = incSeq(counter)
                /\ posts' = [posts EXCEPT ![r].pc = "returnCreate",
                                          ![r].shortRef = counter']
    /\ UNCHANGED <<bookings, response>>
    /\ UNCHANGED notStoreVars

\* the Derriford rule on the return booking, Booking.create(rb), the answer
PostReturnCreate(r) ==
    /\ posts[r].pc = "returnCreate"
    /\ LET b == PostBody(posts[r].body)
           rb == BookingDoc(b, flipShift(b.shiftType), b.returnDateISO,
                            normaliseAddressShape(b.destination),
                            normaliseAddressShape(b.pickup),
                            shortRefOf(posts[r].shortRef), TRUE)
       IN  IF ~derrifordRule(rb) \/ ~validDoc(rb)
           THEN /\ bookings' = bookings
                /\ posts' = Answered(r, 400)
           ELSE /\ bookings' = Append(bookings, rb)
                /\ posts' = [posts EXCEPT ![r].pc = "answered", ![r].code = 200,
                                          ![r].saved = Append(@, Len(bookings) + 1)]
    /\ UNCHANGED <<counter, response>>
    /\ UNCHANGED notStoreVars

\* the answer is out and the request is over
PostOver(r) ==
    /\ posts[r].pc = "answered"
    /\ posts' = [posts EXCEPT ![r] = IdlePost]
    /\ UNCHANGED <<bookings, counter, response>>
    /\ UNCHANGED notStoreVars

\* the steps of the creations served side by side
NextCreate ==
    \/ \E r \in Requests, name \in PostBodyNames :
           Room(name, MaxCreated) /\ PostReceive(r, name)
    \/ \E r \in Requests : PostMainRef(r)
    \/ \E r \in Requests : PostMainCreate(r)
    \/ \E r \in Requests : PostReturnRef(r)
    \/ \E r \in Requests : PostReturnCreate(r)
    \/ \E r \in Requests : PostOver(r)

SpecCreate == Init /\ [][NextCreate]_vars


-----------------------------------------------------------------------------
(* Updates and status changes of one stored booking *)

\* no session cookie
NoSession == <<>>

\* req.budget.budgetNumber of the caller's session: one of the two budgets
Sessions == {sBudget1, sBudget2}

\* the answer of a handler: which one, for which :id, under which session,
\* with which status text in the body, with which status code
Answer(op, id, session, sent, code) ==
    [op |-> op, id |-> id, session |-> session, sent |-> sent, code |-> code]

\* the body of an admin PUT: "absent" and NoAddress for fields it lacks
AdminPayload(shiftType, hasStatus, status, pickup, destination) ==
    [shiftType |-> shiftType, hasStatus |-> hasStatus, status |-> status,
     pickup |-> pickup, destination |-> destination]

\* bodies of PUT /api/bookings/:id that touch the shift type and the
\* addresses: the flags alone, a shift type, an address, a shift type with the
\* address that goes with it
AdminEditPayloads ==
    { AdminPayload("absent", FALSE, <<>>, NoAddress, NoAddress),
      AdminPayload("finish", FALSE, <<>>, NoAddress, NoAddress),
      AdminPayload("start",  FALSE, <<>>, NoAddress, NoAddress),
      AdminPayload("other",  FALSE, <<>>, NoAddress, NoAddress),
      AdminPayload("absent", FALSE, <<>>, OutsideAddress, NoAddress),
      AdminPayload("finish", FALSE, <<>>, DerrifordAddress, NoAddress) }

\* bodies of PUT /api/bookings/:id with a status: empty, null, blank, a known
\* one in capitals, a known one, an unknown one, a known one next to a change
\* the Derriford rule forbids
AdminStatusPayloads ==
    { AdminPayload("absent", TRUE, <<>>, NoAddress, NoAddress),
      AdminPayload("absent", TRUE, null, NoAddress, NoAddress),
      AdminPayload("absent", TRUE, sBlank, NoAddress, NoAddress),
      AdminPayload("absent", TRUE, sApprovedShout, NoAddress, NoAddress),
      AdminPayload("absent", TRUE, sDeclined, NoAddress, NoAddress),
      AdminPayload("absent", TRUE, sCancelled, NoAddress, NoAddress),
      AdminPayload("absent", TRUE, sApproved, OutsideAddress, OutsideAddress) }

\* the status after the admin PUT's status handling, with an empty text
\* keeping the status
adminStatus_emptyKeeps(b, payload) ==
    IF ~payload.hasStatus THEN b.status
    ELSE LET v == toLowerCase(trim(StringOrEmpty(payload.status)))
         IN  IF v \in Statuses THEN v ELSE b.status

\* the status after the admin PUT's status handling
adminStatus(b, payload) ==
    IF ~payload.hasStatus THEN b.status
    ELSE LET v == toLowerCase(trim(StringOrEmpty(payload.status)))
         IN  IF v = <<>> THEN sPending
             ELSE IF v \in Statuses THEN v
             ELSE b.status

\* the booking object of the admin PUT after the payload is applied
adminEdited(b, payload) ==
    [b EXCEPT !.shiftType = IF payload.shiftType = "absent" THEN @
                            ELSE payload.shiftType,
              !.status = adminStatus(b, payload),
              !.pickup = IF payload.pickup = NoAddress THEN @
                         ELSE mergeAddress(@, payload.pickup),
              !.destination = IF payload.destination = NoAddress THEN @
                              ELSE mergeAddress(@, payload.destination)]

\* PUT /api/bookings/:id
AdminUpdate(id, payload) ==
    /\ LET sent == IF payload.hasStatus THEN payload.status ELSE NotSent
           core == \/ payload.shiftType # "absent"
                   \/ payload.hasStatus
                   \/ payload.pickup # NoAddress
                   \/ payload.destination # NoAddress
       IN  IF id \notin DOMAIN bookings
           THEN /\ bookings' = bookings
                /\ response' = Answer("adminUpdate", id, NoSession, sent, 404)
           ELSE IF ~core
           THEN /\ bookings' = bookings
                /\ response' = Answer("adminUpdate", id, NoSession, sent, 200)
           ELSE LET b == adminEdited(bookings[id], payload)
                IN  IF addressesValid(b) /\ derrifordRule(b) /\ validDoc(b)
                    THEN /\ bookings' = [bookings EXCEPT ![id] = b]
                         /\ response' = Answer("adminUpdate", id, NoSession, sent, 200)
                    ELSE /\ bookings' = bookings
                         /\ response' = Answer("adminUpdate", id, NoSession, sent, 400)
    /\ UNCHANGED <<counter, posts>>
    /\ UNCHANGED notStoreVars

\* a handler that loads the booking by :id, sets its status and saves it
SetStatus(op, id, status) ==
    /\ IF id \notin DOMAIN bookings
       THEN /\ bookings' = bookings
            /\ response' = Answer(op, id, NoSession, NotSent, 404)
       ELSE /\ bookings' = [bookings EXCEPT ![id].status = status]
            /\ response' = Answer(op, id, NoSession, NotSent, 200)
    /\ UNCHANGED <<counter, posts>>
    /\ UNCHANGED notStoreVars

\* PATCH /api/bookings/:id/approve
AdminApprove(id) == SetStatus("adminApprove", id, sApproved)

\* PATCH /api/bookings/:id/decline
AdminDecline(id) == SetStatus("adminDecline", id, sDeclined)

\* PATCH /api/bookings/:id/clear-status
AdminClearStatus(id) == SetStatus("adminClearStatus", id, sPending)

\* POST /api/bookings/:id/customer-confirm
CustomerConfirm(id) == SetStatus("customerConfirm", id, sApproved)

\* POST /api/bookings/:id/customer-cancel
CustomerCancel(id) == SetStatus("customerCancel", id, sDeclined)

\* loadBookingForBudget without the comparison of the budget numbers
loadBookingForBudget_anyBudget(id, session) ==
    IF session = NoSession THEN 401
    ELSE IF id \notin DOMAIN bookings THEN 404
    ELSE 200

\* requireLogin and loadBookingForBudget: the status code they answer with,
\* or 200 when the booking is handed to the handler
loadBookingForBudget(id, session) ==
    IF session = NoSession THEN 401
    ELSE IF id \notin DOMAIN bookings THEN 404
    ELSE IF bookings[id].budgetNumber # session THEN 403
    ELSE 200

\* doApprove and doDecline of the budget portal
BudgetSetStatus(op, id, session, status) ==
    /\ LET code == loadBookingForBudget(id, session)
       IN  /\ bookings' = IF code = 200
                          THEN [bookings EXCEPT ![id].status = status]
                          ELSE bookings
           /\ response' = Answer(op, id, session, NotSent, code)
    /\ UNCHANGED <<counter, posts>>
    /\ UNCHANGED notStoreVars

BudgetApprove(id, session) == BudgetSetStatus("budgetApprove", id, session, sApproved)

BudgetDecline(id, session) == BudgetSetStatus("budgetDecline", id, session, sDeclined)

\* PATCH /api/budget/bookings/:id/cancel: Booking.findOne({ _id, budgetNumber })
BudgetCancel(id, session) ==
    /\ IF session = NoSession
       THEN /\ bookings' = bookings
            /\ response' = Answer("budgetCancel", id, session, NotSent, 401)
       ELSE IF id \notin DOMAIN bookings \/ bookings[id].budgetNumber # session
       THEN /\ bookings' = bookings
            /\ response' = Answer("budgetCancel", id, session, NotSent, 404)
       ELSE /\ bookings' = [bookings EXCEPT ![id].status = sDeclined]
            /\ response' = Answer("budgetCancel", id, session, NotSent, 200)
    /\ UNCHANGED <<counter, posts>>
    /\ UNCHANGED notStoreVars

\* the shift types in the bodies of the budget portal's PUT
BudgetShiftTypes == {"absent", "start", "finish", "other"}

\* PUT /bookings/:id of the budget portal
BudgetUpdate(id, session, shiftType) ==
    /\ LET code == loadBookingForBudget(id, session)
       IN  IF code # 200
           THEN /\ bookings' = bookings
                /\ response' = Answer("budgetUpdate", id, session, NotSent, code)
           ELSE LET b == [bookings[id] EXCEPT
                            !.shiftType = IF shiftType = "absent" THEN @ ELSE shiftType]
                IN  IF addressesValid(b) /\ derrifordRule(b) /\ validDoc(b)
                    THEN /\ bookings' = [bookings EXCEPT ![id] = b]
                         /\ response' = Answer("budgetUpdate", id, session, NotSent, 200)
                    ELSE /\ bookings' = bookings
                         /\ response' = Answer("budgetUpdate", id, session, NotSent, 400)
    /\ UNCHANGED <<counter, posts>>
    /\ UNCHANGED notStoreVars

\* the addresses in the body of a customer-update, NoAddress for a missing
\* one: where the place picked or found by the geocoder lies
CustomerPayloads ==
    { [pickup |-> NoAddress,    destination |-> NoAddress],
      [pickup |-> NearAddress,  destination |-> NoAddress],
      [pickup |-> OnlyLatitude, destination |-> NoAddress],
      [pickup |-> NoAddress,    destination |-> OutsideAddress],
      [pickup |-> NoAddress,    destination |-> DerrifordAddress] }

\* the bodies of the budget portal's customer-update taken for the scoping
BudgetCustomerPayloads ==
    { [pickup |-> NearAddress,  destination |-> NoAddress] }

\* the part the two customer-update handlers share, from the address changes
\* to the save: the status code, and the booking to save when it is 200
customerEdit(b, payload) ==
    LET normPickup == normaliseAddressShape(payload.pickup)
        normDest == normaliseAddressShape(payload.destination)
        edited == [b EXCEPT !.pickup = IF payload.pickup = NoAddress THEN @
                                       ELSE normPickup,
                            !.destination = IF payload.destination = NoAddress THEN @
                                            ELSE normDest]
    IN  IF payload.pickup # NoAddress /\ normPickup = NoAddress
        THEN [code |-> 400, booking |-> b]
        ELSE IF payload.destination # NoAddress /\ normDest = NoAddress
        THEN [code |-> 400, booking |-> b]
        ELSE IF payload.pickup = NoAddress /\ payload.destination = NoAddress
        THEN [code |-> 400, booking |-> b]
        ELSE IF ~addressesValid(edited) \/ ~derrifordRule(edited) \/ ~validDoc(edited)
        THEN [code |-> 400, booking |-> b]
        ELSE [code |-> 200, booking |-> edited]

\* POST /api/bookings/:id/customer-update
CustomerUpdate(id, payload) ==
    /\ IF id \notin DOMAIN bookings
       THEN /\ bookings' = bookings
            /\ response' = Answer("customerUpdate", id, NoSession, NotSent, 404)
       ELSE LET done == customerEdit(bookings[id], payload)
            IN  /\ bookings' = [bookings EXCEPT ![id] = done.booking]
                /\ response' = Answer("customerUpdate", id, NoSession, NotSent, done.code)
    /\ UNCHANGED <<counter, posts>>
    /\ UNCHANGED notStoreVars

\* POST /bookings/:id/customer-update of the budget portal
BudgetCustomerUpdate(id, session, payload) ==
    /\ LET code == loadBookingForBudget(id, session)
       IN  IF code # 200
           THEN /\ bookings' = bookings
                /\ response' = Answer("budgetCustomerUpdate", id, session, NotSent, code)
           ELSE LET done == customerEdit(bookings[id], payload)
                IN  /\ bookings' = [bookings EXCEPT ![id] = done.booking]
                    /\ response' = Answer("budgetCustomerUpdate", id, session, NotSent,
                                          done.code)
    /\ UNCHANGED <<counter, posts>>
    /\ UNCHANGED notStoreVars

\* the :id of a request: a stored booking, or 0 for one that does not exist
Ids == 0 .. Len(bookings)

\* the bodies of the creations between which the edits run: a shift finish,
\* a shift start with a return, two that are refused
EditBodyNames == {"finish", "startReturn", "outside", "otherShift"}

\* the bodies of the creations between which the status changes run
StatusBodyNames == {"start", "finish", "startReturn"}

\* no request is being served: the answers are out
NoPost == posts[1].pc = "idle" /\ response = NoResponse

\* the answer of a handler that changes one booking is out and the request
\* is over
ResponseSent ==
    /\ response # NoResponse
    /\ response' = NoResponse
    /\ UNCHANGED <<bookings, counter, posts>>
    /\ UNCHANGED notStoreVars

\* the steps of one creation at a time
PostSteps(names, cap) ==
    \/ \E name \in names : NoPost /\ Room(name, cap) /\ PostReceive(1, name)
    \/ PostMainRef(1)
    \/ PostMainCreate(1)
    \/ PostReturnRef(1)
    \/ PostReturnCreate(1)
    \/ PostOver(1)

\* the creations and the handlers that change the shift type or an address of
\* one booking, one request after the other
NextEdits ==
    \/ PostSteps(EditBodyNames, MaxEditBookings)
    \/ NoPost /\ \E id \in Ids, payload \in AdminEditPayloads : AdminUpdate(id, payload)
    \/ NoPost /\ \E id \in Ids, payload \in CustomerPayloads : CustomerUpdate(id, payload)
    \/ NoPost /\ \E id \in Ids, session \in Sessions, shiftType \in BudgetShiftTypes :
                    BudgetUpdate(id, session, shiftType)
    \/ NoPost /\ \E id \in Ids, session \in Sessions, payload \in CustomerPayloads :
                    BudgetCustomerUpdate(id, session, payload)
    \/ ResponseSent

SpecEdits == Init /\ [][NextEdits]_vars

\* the creations and the handlers that set the status of one booking or act
\* under a budget holder's session, one request after the other
NextStatus ==
    \/ PostSteps(StatusBodyNames, MaxStatusBookings)
    \/ NoPost /\ \E id \in Ids, payload \in AdminStatusPayloads : AdminUpdate(id, payload)
    \/ NoPost /\ \E id \in Ids : AdminApprove(id)
    \/ NoPost /\ \E id \in Ids : AdminDecline(id)
    \/ NoPost /\ \E id \in Ids : AdminClearStatus(id)
    \/ NoPost /\ \E id \in Ids : CustomerConfirm(id)
    \/ NoPost /\ \E id \in Ids : CustomerCancel(id)
    \/ NoPost /\ \E id \in Ids, session \in Sessions \cup {NoSession} :
                    BudgetApprove(id, session)
    \/ NoPost /\ \E id \in Ids, session \in Sessions \cup {NoSession} :
                    BudgetDecline(id, session)
    \/ NoPost /\ \E id \in Ids, session \in Sessions \cup {NoSession} :
                    BudgetCancel(id, session)
    \/ NoPost /\ \E id \in Ids, session \in Sessions \cup {NoSession},
                      shiftType \in BudgetShiftTypes :
                    BudgetUpdate(id, session, shiftType)
    \/ NoPost /\ \E id \in Ids, session \in Sessions \cup {NoSession},
                      payload \in BudgetCustomerPayloads :
                    BudgetCustomerUpdate(id, session, payload)
    \/ ResponseSent

SpecStatus == Init /\ [][NextStatus]_vars

-----------------------------------------------------------------------------
(* Creation: all or nothing, and the short references *)

\* C27: booking creation is all-or-nothing: whenever POST /api/bookings has
\* answered with an error, no booking of that request is in the store, so a
\* stored outbound booking always comes with a success response.
C27_CreateAllOrNothing ==
    \A r \in Requests :
        (posts[r].pc = "answered" /\ posts[r].code >= 400) => posts[r].saved = <<>>

\* the short references the store holds and those the requests being served
\* have taken and not yet stored, each with where it is
TakenRefs ==
    {<<"stored", i, bookings[i].shortRef>> : i \in DOMAIN bookings}
    \cup {<<"held", r, shortRefOf(posts[r].shortRef)>> :
            r \in {q \in Requests : posts[q].pc \in {"mainCreate", "returnCreate"}}}

\* C28: short references are unique: under any interleaving of the creations
\* served side by side, the two legs of a booking with a return included, no
\* two stored bookings have the same shortRef, and no reference a request has
\* taken from the counter equals a stored one or one another request has taken.
C28_ShortRefsUnique ==
    \A x \in TakenRefs : \A y \in TakenRefs : x # y => x[3] # y[3]

\* a request with a return and another request have stored their bookings in
\* turns: the other one's booking lies between the two legs
C28_Witness ==
    /\ posts[1].pc = "answered" /\ posts[1].saved = <<1, 3>>
    /\ posts[2].pc = "answered" /\ posts[2].saved = <<2>>
    /\ bookings[3].isReturn


-----------------------------------------------------------------------------
(* The Derriford rule, the budget scoping and the status of stored bookings *)

\* the places of the requests that lie within 900 m of the hospital: the
\* hospital itself and the place 500 m north of it
WithinHub(a) == <<a.lat, a.lng>> \in {<<504195, -41090>>, <<504240, -41090>>}

\* every stored shift start is dropped off, and every stored shift finish is
\* picked up, within 900 m of the hospital
DerrifordRuleKept ==
    \A i \in DOMAIN bookings :
        /\ bookings[i].shiftType = "start" => WithinHub(bookings[i].destination)
        /\ bookings[i].shiftType = "finish" => WithinHub(bookings[i].pickup)

\* a step in which a handler that changes one booking answers
HandlerStep == posts' = posts /\ response' # NoResponse

\* C26: the Derriford rule is an invariant of the stored bookings: after every
\* step of a create, a return-booking creation, an admin update, a budget
\* holder's update or a staff self-service update, every stored shift start
\* has its destination, and every stored shift finish its pickup, within 900 m
\* of the hospital; an update answered with 400, and a creation refused on its
\* body, stores nothing.
C26_DerrifordRuleInvariant ==
    [][ /\ DerrifordRuleKept'
        /\ (HandlerStep /\ response'.code = 400) => bookings' = bookings
        /\ (posts[1].pc = "idle" /\ posts'[1].pc = "answered")
               => (bookings' = bookings /\ posts'[1].saved = <<>>) ]_vars

\* a return leg that edits have turned into a shift start from and to the
\* hospital, for which a staff update to a drop-off 1056 m away is refused
C26_Witness ==
    /\ response.op = "customerUpdate" /\ response.code = 400
    /\ response.id \in DOMAIN bookings
    /\ bookings[response.id].isReturn
    /\ bookings[response.id].shiftType = "start"

\* the handlers of the budget portal
BudgetOps ==
    {"budgetApprove", "budgetDecline", "budgetCancel", "budgetUpdate",
     "budgetCustomerUpdate"}

\* C29: an approve, decline, cancel or edit request made through the budget
\* portal changes only the booking it names and only when that booking's
\* budgetNumber equals the budgetNumber of the caller's session; for a
\* booking of another budget the answer is 403 or 404 and no booking changes.
C29_BudgetScoped ==
    [][ (HandlerStep /\ response'.op \in BudgetOps) =>
          LET id == response'.id
              session == response'.session
          IN  /\ Len(bookings') = Len(bookings)
              /\ \A i \in DOMAIN bookings :
                     bookings'[i] # bookings[i]
                        => (i = id /\ bookings[i].budgetNumber = session)
              /\ (id \in DOMAIN bookings /\ session # NoSession
                    /\ bookings[id].budgetNumber # session)
                     => (response'.code \in {403, 404} /\ bookings' = bookings) ]_vars

\* a budget holder's request for a stored booking of the other budget was
\* refused, with a booking of their own budget approved in the store
C29_Witness ==
    /\ response.op \in BudgetOps
    /\ response.session \in Sessions
    /\ response.id \in DOMAIN bookings
    /\ bookings[response.id].budgetNumber # response.session
    /\ response.code \in {403, 404}
    /\ \E j \in DOMAIN bookings :
           bookings[j].budgetNumber = response.session /\ bookings[j].status = sApproved

\* the status texts of the requests that are empty once trimmed
EmptyStatusTexts == {<<>>, null, sBlank}

\* the status texts of the requests that name no status
UnknownStatusTexts == {sCancelled}

\* C30: a booking is created with status pending; after every step of the
\* admin approve, decline, clear-status and update, the budget holder's
\* approve and decline and the staff link's confirm and cancel, the status of
\* every stored booking is one of pending, approved, declined; an admin
\* update with an unrecognised status text leaves the status as it was, and
\* one with an empty status text that is carried out sets it to pending.
C30_StatusInvariant ==
    [][ /\ \A i \in DOMAIN bookings' : bookings'[i].status \in {sPending, sApproved, sDeclined}
        /\ \A i \in DOMAIN bookings' :
               i \notin DOMAIN bookings => bookings'[i].status = sPending
        /\ (HandlerStep /\ response'.op = "adminUpdate" /\ response'.id \in DOMAIN bookings) =>
              /\ response'.sent \in UnknownStatusTexts
                    => bookings'[response'.id].status = bookings[response'.id].status
              /\ (response'.sent \in EmptyStatusTexts /\ response'.code = 200)
                    => bookings'[response'.id].status = sPending ]_vars

\* an admin update with the status text "cancelled" was answered for an
\* approved booking, next to a declined one
C30_Witness ==
    /\ response.op = "adminUpdate" /\ response.sent = sCancelled
    /\ response.id \in DOMAIN bookings
    /\ bookings[response.id].status = sApproved
    /\ \E j \in DOMAIN bookings : bookings[j].status = sDeclined

====
